---------------------------- MODULE Spec2Model ----------------------------
(***************************************************************************)
(* Matching and scoring engine of the plagiarism backend.                  *)
(*                                                                         *)
(* Three analysis entry points are modelled, each on one document:         *)
(*   - PlagiarismAnalyzer.analyze_document   (static corpus matcher)       *)
(*   - PlagiarismDetector.analyze_document   (provider lookups + scorer)   *)
(*   - main.analyze_document -> simulate_plagiarism_check                  *)
(*                                                                         *)
(* A text is a sequence of one-character strings.  Fractions (Python       *)
(* floats obtained by one division) are kept exact as [num, den] records   *)
(* and compared by cross multiplication.                                   *)
(***************************************************************************)
EXTENDS Integers, Sequences, FiniteSets, TLC

VARIABLES
  entry,            \* which entry point the caller invoked
  first_call,       \* the earlier call of the same entry point on the same text
  text,             \* the document text handed to the entry point
  second_text,      \* PlagiarismDetector._calculate_similarity: text2
  tasks,            \* AcademicSearch._execute_with_rate_limit: tasks
  other_task,       \* another task of the event loop: none, ready, or stepped
  fault,            \* the unexpected failure of this run: to come, or raised
  pc,               \* position of the run inside the entry point
  clean_text,       \* PlagiarismAnalyzer: normalized text
  sentences,        \* PlagiarismAnalyzer: result of _split_into_sentences
  extracted_text,   \* main.analyze_document: extracted_text
  valid_sentences,  \* PlagiarismDetector.analyze_document: valid_sentences
  i,                \* PlagiarismDetector.analyze_document: batch start index
  j,                \* PlagiarismDetector._search_batch: index inside the batch
  all_results,      \* _search_sentence_comprehensive: all_results of the last call
  lookups,          \* the provider calls of the lookup in progress, in order
                    \* (_execute_with_rate_limit: the tasks it has awaited)
  searched,         \* the calls of _search_sentence_comprehensive of the run, in order
  max_results,      \* AcademicSearch.search_all_academic_sources: max_results
  task_results,     \* AcademicSearch._execute_with_rate_limit: results
  isolated,         \* the provider that fails on every call of this run, or "none"
  twin,             \* the same run with the provider `isolated` left out
  batch_matches,    \* PlagiarismDetector._search_batch: matches
  all_matches,      \* PlagiarismDetector.analyze_document: all_matches
  sleeps,           \* number of asyncio.sleep calls made by the run
  result            \* what the entry point returned (or raised)

vars == << entry, text, tasks, other_task, second_text, fault, first_call, pc, clean_text, sentences, extracted_text,
           valid_sentences, i, j, all_results, lookups, searched,
           max_results, task_results, isolated, twin, batch_matches, all_matches, sleeps,
           result >>

---------------------------------------------------------------------------
(* Bounds of the model *)

\* A document is the concatenation of at most MaxFrags fragments.
MaxFrags == 4
\* the second call of an entry point is explored on documents of at most
\* MaxFragsTwice fragments, for at most MaxCalls calls
MaxFragsTwice == 2
MaxCalls == 2
\* the longest list of tasks handed to _execute_with_rate_limit
MaxTasks == 3
\* the texts whose similarity is computed have at most MaxSimilarityLen
\* characters
MaxSimilarityLen == 3

---------------------------------------------------------------------------
(* Exact fractions *)

Rat(n, d) == [num |-> n, den |-> d]
RLt(x, y) == x.num * y.den < y.num * x.den
RLeq(x, y) == x.num * y.den <= y.num * x.den
RGeq(x, y) == RLeq(y, x)
REq(x, y) == x.num * y.den = y.num * x.den
RMin(x, y) == IF RLeq(x, y) THEN x ELSE y
RMax(x, y) == IF RLeq(x, y) THEN y ELSE x
RZero == Rat(0, 1)

\* a / b < c / d for a, c >= 0 and b, d > 0, compared by the integer parts
\* and then the remainders, so that no product is formed
RECURSIVE FracLess(_, _, _, _)
FracLess(a, b, c, d) ==
  IF a \div b # c \div d THEN a \div b < c \div d
  ELSE IF c % d = 0 THEN FALSE
  ELSE IF a % b = 0 THEN TRUE
  ELSE FracLess(d, c % d, b, a % b)

RLess(x, y) == FracLess(x.num, x.den, y.num, y.den)
ROne == Rat(1, 1)

SetMin(S) == CHOOSE x \in S : \A y \in S : x <= y
SetMax(S) == CHOOSE x \in S : \A y \in S : y <= x

---------------------------------------------------------------------------
(* Python string operations on sequences of characters *)

UpperCase ==
  <<"A","B","C","D","E","F","G","H","I","J","K","L","M",
    "N","O","P","Q","R","S","T","U","V","W","X","Y","Z">>
LowerCase ==
  <<"a","b","c","d","e","f","g","h","i","j","k","l","m",
    "n","o","p","q","r","s","t","u","v","w","x","y","z">>
Digits == {"0","1","2","3","4","5","6","7","8","9"}

\* str.isspace for the whitespace characters of the model
IsSpace(c) == c \in {" ", "\n", "\t"}
\* the character class [.!?]
IsTerm(c) == c \in {".", "!", "?"}
\* the character class \w
WordChars ==
  {UpperCase[k] : k \in 1..26} \cup {LowerCase[k] : k \in 1..26}
    \cup Digits \cup {"_"}
IsWordChar(c) == c \in WordChars

ToLower ==
  [c \in {UpperCase[k] : k \in 1..26} |->
     LowerCase[CHOOSE k \in 1..26 : UpperCase[k] = c]]
LowerChar(c) == IF c \in DOMAIN ToLower THEN ToLower[c] ELSE c
\* str.lower
Lower(s) == [k \in 1..Len(s) |-> LowerChar(s[k])]

\* the elements of the sequence f
Range(f) == {f[k] : k \in 1..Len(f)}

\* the indexes of s, in order
Indexes(s) == [k \in 1..Len(s) |-> k]

\* str.strip
Strip(s) ==
  LET keep == SelectSeq(Indexes(s), LAMBDA k : ~IsSpace(s[k]))
  IN  IF keep = <<>> THEN <<>> ELSE SubSeq(s, keep[1], keep[Len(keep)])

\* s[lo:hi] with 0 <= lo
PySlice(s, lo, hi) ==
  LET h == IF hi > Len(s) THEN Len(s) ELSE hi
  IN  IF lo >= h THEN <<>> ELSE SubSeq(s, lo + 1, h)

\* re.sub(r'\s+', ' ', s): every maximal run of whitespace becomes one space
SubSpaceRuns(s) ==
  LET keep == SelectSeq(Indexes(s),
                LAMBDA k : ~IsSpace(s[k]) \/ k = 1 \/ ~IsSpace(s[k - 1]))
  IN  [p \in 1..Len(keep) |-> IF IsSpace(s[keep[p]]) THEN " " ELSE s[keep[p]]]

\* re.sub(r'[^\w\s]', '', s)
SubNonWord(s) == SelectSeq(s, LAMBDA c : IsWordChar(c) \/ IsSpace(c))

\* re.split(r'[.!?]+', s): the pieces between the runs of terminators,
\* the empty pieces at either end included
ReSplit(s) ==
  LET n == Len(s)
      starts == SelectSeq(Indexes(s),
                  LAMBDA k : ~IsTerm(s[k]) /\ (k = 1 \/ IsTerm(s[k - 1])))
      ends == SelectSeq(Indexes(s),
                LAMBDA k : ~IsTerm(s[k]) /\ (k = n \/ IsTerm(s[k + 1])))
      inner == [p \in 1..Len(starts) |-> SubSeq(s, starts[p], ends[p])]
  IN  IF n = 0 THEN << <<>> >>
      ELSE (IF IsTerm(s[1]) THEN << <<>> >> ELSE <<>>)
           \o inner
           \o (IF IsTerm(s[n]) THEN << <<>> >> ELSE <<>>)

\* len(s.split()): the number of maximal runs of non-whitespace
WordCount(s) ==
  Len(SelectSeq(Indexes(s),
        LAMBDA k : ~IsSpace(s[k]) /\ (k = 1 \/ IsSpace(s[k - 1]))))

\* p occurs in t at the 0-based offset k
OccursAt(t, p, k) ==
  /\ k + Len(p) <= Len(t)
  /\ \A d \in 1..Len(p) : t[k + d] = p[d]
\* p in t
Contains(t, p) == \E k \in 0..(Len(t) - Len(p)) : OccursAt(t, p, k)
\* t.find(p): the first offset (0-based), -1 when there is none
Find(t, p) ==
  IF Contains(t, p)
  THEN SetMin({k \in 0..(Len(t) - Len(p)) : OccursAt(t, p, k)})
  ELSE -1

\* sum of f[k] over k in 1..Len(f)
RECURSIVE SumSeq(_)
SumSeq(f) == IF f = <<>> THEN 0 ELSE Head(f) + SumSeq(Tail(f))

\* list.sort(key=..., reverse=True) of ms, keys[k] being the key of ms[k];
\* the sort is stable: elements with equal keys keep their order
SortDescBy(ms, keys) ==
  LET n == Len(ms)
      pos(k) == Cardinality({m \in 1..n : keys[m] > keys[k]})
              + Cardinality({m \in 1..k : keys[m] = keys[k]})
  IN  [p \in 1..n |-> ms[CHOOSE k \in 1..n : pos(k) = p]]

---------------------------------------------------------------------------
(* PlagiarismAnalyzer: the static corpus *)

known_sources ==
  <<
    [ source |-> "src_001",
      phrases |-> <<
        \* "artificial intelligence and machine learning have revolutionized"
        <<"a","r","t","i","f","i","c","i","a","l"," ","i","n","t","e","l","l","i","g","e","n","c","e"," ","a","n","d"," ","m","a","c","h","i","n","e"," ","l","e","a","r","n","i","n","g"," ","h","a","v","e"," ","r","e","v","o","l","u","t","i","o","n","i","z","e","d">>,
        \* "machine learning algorithms"
        <<"m","a","c","h","i","n","e"," ","l","e","a","r","n","i","n","g"," ","a","l","g","o","r","i","t","h","m","s">>,
        \* "artificial intelligence systems"
        <<"a","r","t","i","f","i","c","i","a","l"," ","i","n","t","e","l","l","i","g","e","n","c","e"," ","s","y","s","t","e","m","s">>,
        \* "deep learning networks"
        <<"d","e","e","p"," ","l","e","a","r","n","i","n","g"," ","n","e","t","w","o","r","k","s">>,
        \* "neural networks and artificial intelligence"
        <<"n","e","u","r","a","l"," ","n","e","t","w","o","r","k","s"," ","a","n","d"," ","a","r","t","i","f","i","c","i","a","l"," ","i","n","t","e","l","l","i","g","e","n","c","e">>
      >> ],
    [ source |-> "src_002",
      phrases |-> <<
        \* "climate change represents one of the most pressing challenges"
        <<"c","l","i","m","a","t","e"," ","c","h","a","n","g","e"," ","r","e","p","r","e","s","e","n","t","s"," ","o","n","e"," ","o","f"," ","t","h","e"," ","m","o","s","t"," ","p","r","e","s","s","i","n","g"," ","c","h","a","l","l","e","n","g","e","s">>,
        \* "global warming and climate change"
        <<"g","l","o","b","a","l"," ","w","a","r","m","i","n","g"," ","a","n","d"," ","c","l","i","m","a","t","e"," ","c","h","a","n","g","e">>,
        \* "rising temperatures and melting ice caps"
        <<"r","i","s","i","n","g"," ","t","e","m","p","e","r","a","t","u","r","e","s"," ","a","n","d"," ","m","e","l","t","i","n","g"," ","i","c","e"," ","c","a","p","s">>,
        \* "environmental impact of climate change"
        <<"e","n","v","i","r","o","n","m","e","n","t","a","l"," ","i","m","p","a","c","t"," ","o","f"," ","c","l","i","m","a","t","e"," ","c","h","a","n","g","e">>
      >> ],
    [ source |-> "src_003",
      phrases |-> <<
        \* "human brain contains approximately 86 billion neurons"
        <<"h","u","m","a","n"," ","b","r","a","i","n"," ","c","o","n","t","a","i","n","s"," ","a","p","p","r","o","x","i","m","a","t","e","l","y"," ","8","6"," ","b","i","l","l","i","o","n"," ","n","e","u","r","o","n","s">>,
        \* "neurons connected through synapses"
        <<"n","e","u","r","o","n","s"," ","c","o","n","n","e","c","t","e","d"," ","t","h","r","o","u","g","h"," ","s","y","n","a","p","s","e","s">>,
        \* "brain neural networks"
        <<"b","r","a","i","n"," ","n","e","u","r","a","l"," ","n","e","t","w","o","r","k","s">>,
        \* "cognitive neuroscience research"
        <<"c","o","g","n","i","t","i","v","e"," ","n","e","u","r","o","s","c","i","e","n","c","e"," ","r","e","s","e","a","r","c","h">>
      >> ],
    [ source |-> "src_004",
      phrases |-> <<
        \* "machine learning enables computers to learn from experience"
        <<"m","a","c","h","i","n","e"," ","l","e","a","r","n","i","n","g"," ","e","n","a","b","l","e","s"," ","c","o","m","p","u","t","e","r","s"," ","t","o"," ","l","e","a","r","n"," ","f","r","o","m"," ","e","x","p","e","r","i","e","n","c","e">>,
        \* "supervised and unsupervised learning"
        <<"s","u","p","e","r","v","i","s","e","d"," ","a","n","d"," ","u","n","s","u","p","e","r","v","i","s","e","d"," ","l","e","a","r","n","i","n","g">>,
        \* "machine learning algorithms and data processing"
        <<"m","a","c","h","i","n","e"," ","l","e","a","r","n","i","n","g"," ","a","l","g","o","r","i","t","h","m","s"," ","a","n","d"," ","d","a","t","a"," ","p","r","o","c","e","s","s","i","n","g">>,
        \* "predictive modeling with machine learning"
        <<"p","r","e","d","i","c","t","i","v","e"," ","m","o","d","e","l","i","n","g"," ","w","i","t","h"," ","m","a","c","h","i","n","e"," ","l","e","a","r","n","i","n","g">>
      >> ]
  >>

common_phrases ==
  <<
    \* "research shows that"
    <<"r","e","s","e","a","r","c","h"," ","s","h","o","w","s"," ","t","h","a","t">>,
    \* "studies have shown"
    <<"s","t","u","d","i","e","s"," ","h","a","v","e"," ","s","h","o","w","n">>,
    \* "according to research"
    <<"a","c","c","o","r","d","i","n","g"," ","t","o"," ","r","e","s","e","a","r","c","h">>,
    \* "it is important to note"
    <<"i","t"," ","i","s"," ","i","m","p","o","r","t","a","n","t"," ","t","o"," ","n","o","t","e">>,
    \* "in conclusion"
    <<"i","n"," ","c","o","n","c","l","u","s","i","o","n">>,
    \* "furthermore"
    <<"f","u","r","t","h","e","r","m","o","r","e">>,
    \* "however"
    <<"h","o","w","e","v","e","r">>,
    \* "therefore"
    <<"t","h","e","r","e","f","o","r","e">>
  >>

---------------------------------------------------------------------------
(* PlagiarismAnalyzer *)

Analyzer_clean_text(t) == Lower(SubSpaceRuns(Strip(t)))

Analyzer_split_into_sentences(t) ==
  LET pieces == ReSplit(t)
      kept == SelectSeq(pieces,
                LAMBDA s : Strip(s) # <<>> /\ Len(Strip(s)) > 10)
  IN  [k \in 1..Len(kept) |-> Strip(kept[k])]

\* the (source, phrase) pairs in the iteration order of the two loops
RECURSIVE KnownPhrasesFrom(_)
KnownPhrasesFrom(c) ==
  IF c > Len(known_sources) THEN <<>>
  ELSE [k \in 1..Len(known_sources[c].phrases) |->
          [source |-> known_sources[c].source,
           phrase |-> known_sources[c].phrases[k]]]
       \o KnownPhrasesFrom(c + 1)
KnownPhrases == KnownPhrasesFrom(1)

\* Variant of the match of a corpus phrase that is located at the last
\* occurrence of the phrase in the text
Mut_known_match_last_occurrence(ct, e) ==
  LET phrase_lower == Lower(e.phrase)
      at == {q \in 0..(Len(ct) - Len(phrase_lower)) :
               PySlice(ct, q, q + Len(phrase_lower)) = phrase_lower}
      start_pos == CHOOSE q \in at : \A r \in at : r <= q
      end_pos == start_pos + Len(phrase_lower)
  IN  [originalText |-> PySlice(ct, start_pos, end_pos),
       matchedText |-> e.phrase,
       similarity |-> 95,
       startIndex |-> start_pos,
       endIndex |-> end_pos,
       source |-> e.source,
       matchType |-> "exact"]

Analyzer_known_match(ct, e) ==
  LET phrase_lower == Lower(e.phrase)
      start_pos == Find(ct, phrase_lower)
      end_pos == start_pos + Len(phrase_lower)
      similarity == IF phrase_lower = PySlice(ct, start_pos, end_pos)
                    THEN 95 ELSE 85
  IN  [originalText |-> PySlice(ct, start_pos, end_pos),
       matchedText |-> e.phrase,
       similarity |-> similarity,
       startIndex |-> start_pos,
       endIndex |-> end_pos,
       source |-> e.source,
       matchType |-> IF similarity >= 95 THEN "exact" ELSE "paraphrased"]

Analyzer_find_partial_matches(t) ==
  LET hit == SelectSeq(common_phrases, LAMBDA p : Contains(t, p))
  IN  [k \in 1..Len(hit) |->
         [originalText |-> hit[k],
          matchedText |-> hit[k],
          similarity |-> 70,
          startIndex |-> Find(t, hit[k]),
          endIndex |-> Find(t, hit[k]) + Len(hit[k]),
          source |-> "common_phrase",
          matchType |-> "common_phrase"]]

\* Variant of _deduplicate_matches whose key is the start position alone
Mut_deduplicate_by_start(ms) ==
  LET first == {k \in 1..Len(ms) :
                  \A m \in 1..(k - 1) : ms[m].startIndex # ms[k].startIndex}
      kept == SelectSeq(Indexes(ms), LAMBDA k : k \in first)
  IN  [p \in 1..Len(kept) |-> ms[kept[p]]]

Analyzer_deduplicate_matches(ms) ==
  LET key(m) == << m.startIndex, m.endIndex, m.originalText >>
      first == {k \in 1..Len(ms) : \A m \in 1..(k - 1) : key(ms[m]) # key(ms[k])}
      rank(k) == Cardinality({m \in first : m <= k})
  IN  [p \in 1..Cardinality(first) |-> ms[CHOOSE k \in first : rank(k) = p]]

Analyzer_find_matches(ct, sents) ==
  LET hit == SelectSeq(KnownPhrases, LAMBDA e : Contains(ct, Lower(e.phrase)))
      known == [k \in 1..Len(hit) |-> Analyzer_known_match(ct, hit[k])]
      found == known \o Analyzer_find_partial_matches(ct)
      unique == Analyzer_deduplicate_matches(found)
  IN  SortDescBy(unique, [k \in 1..Len(unique) |-> unique[k].similarity])

\* the character offsets covered by at least one match
CoveredPositions(ms) ==
  UNION { m.startIndex..(m.endIndex - 1) : m \in {ms[k] : k \in 1..Len(ms)} }

Analyzer_calculate_overall_similarity(t, ms) ==
  IF ms = <<>> THEN RZero
  ELSE LET total_chars == Len(t)
           matched_chars == Cardinality(CoveredPositions(ms))
           similarity == IF total_chars > 0
                         THEN Rat(matched_chars, total_chars) ELSE RZero
       IN  RMin(RMax(similarity, RZero), ROne)

Analyzer_determine_risk_level(similarity) ==
  IF RGeq(similarity, Rat(8, 10)) THEN "High"
  ELSE IF RGeq(similarity, Rat(4, 10)) THEN "Medium"
  ELSE "Low"

\* the exception analyze_document raises for an exception inside it
Analyzer_raised == [status |-> "raised", error |-> "Failed to analyze document"]

Analyzer_result(t, ct, sents) ==
  LET matches == Analyzer_find_matches(ct, sents)
      overall_similarity == Analyzer_calculate_overall_similarity(ct, matches)
  IN  [status |-> "completed",
       overallSimilarity |-> overall_similarity,
       riskLevel |-> Analyzer_determine_risk_level(overall_similarity),
       matches |-> matches]

---------------------------------------------------------------------------
(* main.py: create_realistic_matches, simulate_plagiarism_check,
   analyze_document *)

patterns ==
  <<
    \* "artificial intelligence"
    [ pattern |-> <<"a","r","t","i","f","i","c","i","a","l"," ","i","n","t","e","l","l","i","g","e","n","c","e">>,
      similarity |-> 95 ],
    \* "machine learning"
    [ pattern |-> <<"m","a","c","h","i","n","e"," ","l","e","a","r","n","i","n","g">>,
      similarity |-> 88 ],
    \* "climate change"
    [ pattern |-> <<"c","l","i","m","a","t","e"," ","c","h","a","n","g","e">>,
      similarity |-> 92 ],
    \* "data analysis"
    [ pattern |-> <<"d","a","t","a"," ","a","n","a","l","y","s","i","s">>,
      similarity |-> 85 ],
    \* "research methodology"
    [ pattern |-> <<"r","e","s","e","a","r","c","h"," ","m","e","t","h","o","d","o","l","o","g","y">>,
      similarity |-> 90 ],
    \* "literature review"
    [ pattern |-> <<"l","i","t","e","r","a","t","u","r","e"," ","r","e","v","i","e","w">>,
      similarity |-> 87 ]
  >>

\* the match that one pattern found at start_pos contributes;
\* n is len(matches) when it is appended
Main_match(t, p, start_pos, n) ==
  LET context_start == IF start_pos - 5 > 0 THEN start_pos - 5 ELSE 0
      end1 == IF start_pos + Len(p.pattern) + 45 < Len(t)
              THEN start_pos + Len(p.pattern) + 45 ELSE Len(t)
      text1 == Strip(PySlice(t, context_start, end1))
      end2 == IF start_pos + 60 < Len(t) THEN start_pos + 60 ELSE Len(t)
      original_text == IF Len(text1) < 30
                       THEN Strip(PySlice(t, context_start, end2))
                       ELSE text1
  IN  [originalText |-> original_text,
       similarity |-> p.similarity,
       startIndex |-> start_pos,
       endIndex |-> start_pos + Len(p.pattern),
       source |-> n + 1,
       type |-> IF p.similarity > 90 THEN "exact" ELSE "paraphrased"]

RECURSIVE Main_matches_from(_, _, _)
Main_matches_from(t, k, acc) ==
  IF k > Len(patterns) THEN acc
  ELSE LET start_pos == Find(Lower(t), patterns[k].pattern)
       IN  IF start_pos # -1
           THEN Main_matches_from(t, k + 1,
                  Append(acc, Main_match(t, patterns[k], start_pos, Len(acc))))
           ELSE Main_matches_from(t, k + 1, acc)

create_realistic_matches(t) == Main_matches_from(t, 1, <<>>)

\* Variant of the aggregation of simulate_plagiarism_check that leaves the
\* average similarity of the matches out
Mut_overall_similarity_coverage_only(t, matches) ==
  IF matches # <<>>
  THEN LET total_matched_chars ==
             SumSeq([k \in 1..Len(matches) |-> Len(matches[k].originalText)])
           text_coverage == RMin(Rat(total_matched_chars, Len(t)), ROne)
       IN  RMin(Rat(6 * text_coverage.num, 10 * text_coverage.den),
                Rat(95, 100))
  ELSE RZero

Main_overall_similarity(t, matches) ==
  IF matches # <<>>
  THEN LET total_matched_chars ==
             SumSeq([k \in 1..Len(matches) |-> Len(matches[k].originalText)])
           text_coverage == RMin(Rat(total_matched_chars, Len(t)), ROne)
           sum_similarity ==
             SumSeq([k \in 1..Len(matches) |-> matches[k].similarity])
           \* text_coverage * 0.6 + (avg_similarity / 100) * 0.4, that is
           \* (600 c n + 4 S d) / (1000 d n) for coverage c / d and the sum S
           \* of the n similarities, reduced by 4
           combined ==
             Rat(150 * text_coverage.num * Len(matches)
                   + sum_similarity * text_coverage.den,
                 250 * text_coverage.den * Len(matches))
       IN  RMin(combined, Rat(95, 100))
  ELSE RZero

\* Variant of the risk table of simulate_plagiarism_check whose first
\* comparison is written the wrong way round
Mut_risk_level_reversed(overall_similarity) ==
  IF RLt(Rat(10, 100), overall_similarity) THEN "Low"
  ELSE IF RLt(overall_similarity, Rat(25, 100)) THEN "Medium"
  ELSE "High"

Main_risk_level(overall_similarity) ==
  IF RLt(overall_similarity, Rat(10, 100)) THEN "Low"
  ELSE IF RLt(overall_similarity, Rat(25, 100)) THEN "Medium"
  ELSE "High"

\* sources: the first match of every source id, in match order
Main_sources(matches) ==
  LET first == {k \in 1..Len(matches) :
                  \A m \in 1..(k - 1) : matches[m].source # matches[k].source}
  IN  {matches[k].source : k \in first}

simulate_plagiarism_check(t) ==
  LET matches == create_realistic_matches(t)
      overall_similarity == Main_overall_similarity(t, matches)
  IN  [status |-> "completed",
       overallSimilarity |-> overall_similarity,
       riskLevel |-> Main_risk_level(overall_similarity),
       matches |-> matches,
       sources |-> Main_sources(matches)]

\* extract_text_from_file: every branch returns the file's text stripped
extract_text_from_file(t) == Strip(t)

\* the check that makes analyze_document raise ValueError
Main_too_short(et) == et = <<>> \/ Len(Strip(et)) < 10

Main_raised == [status |-> "raised", error |-> "Document analysis failed"]

---------------------------------------------------------------------------
(* PlagiarismDetector *)

similarity_threshold == Rat(6, 10)
min_sentence_length == 10
max_search_results == 5
batch_size == 3

Detector_split_into_sentences(t) ==
  LET pieces == ReSplit(t)
      kept == SelectSeq(pieces, LAMBDA s : Strip(s) # <<>>)
  IN  [k \in 1..Len(kept) |-> Strip(kept[k])]

\* Variant of the filter of analyze_document that counts characters
\* (len(s)) where the code counts words (len(s.split()))
Mut_valid_sentences_by_characters(t) ==
  SelectSeq(Detector_split_into_sentences(t),
            LAMBDA s : Len(s) >= min_sentence_length)

Detector_valid_sentences(t) ==
  SelectSeq(Detector_split_into_sentences(t),
            LAMBDA s : WordCount(s) >= min_sentence_length)

\* difflib.SequenceMatcher.find_longest_match without junk: the longest
\* block a[x:x+k] = b[y:y+k] inside the two ranges, the one starting earliest
\* in a and, among those, earliest in b (offsets are 0-based)
RECURSIVE RunLen(_, _, _, _, _, _)
RunLen(a, b, x, y, ahi, bhi) ==
  IF x < ahi /\ y < bhi /\ a[x + 1] = b[y + 1]
  THEN 1 + RunLen(a, b, x + 1, y + 1, ahi, bhi)
  ELSE 0

find_longest_match(a, b, alo, ahi, blo, bhi) ==
  LET starts == {p \in (alo..(ahi - 1)) \X (blo..(bhi - 1)) :
                   a[p[1] + 1] = b[p[2] + 1]}
  IN  IF starts = {} THEN [besti |-> alo, bestj |-> blo, bestsize |-> 0]
      ELSE LET len == [p \in starts |-> RunLen(a, b, p[1], p[2], ahi, bhi)]
               best == SetMax({len[p] : p \in starts})
               besta == SetMin({p[1] : p \in {q \in starts : len[q] = best}})
               bestb == SetMin({p[2] : p \in {q \in starts :
                                   len[q] = best /\ q[1] = besta}})
           IN  [besti |-> besta, bestj |-> bestb, bestsize |-> best]

\* the total size of difflib.SequenceMatcher.get_matching_blocks
RECURSIVE matching_size(_, _, _, _, _, _)
matching_size(a, b, alo, ahi, blo, bhi) ==
  LET m == find_longest_match(a, b, alo, ahi, blo, bhi)
  IN  IF m.bestsize = 0 THEN 0
      ELSE m.bestsize
           + (IF alo < m.besti /\ blo < m.bestj
              THEN matching_size(a, b, alo, m.besti, blo, m.bestj) ELSE 0)
           + (IF m.besti + m.bestsize < ahi /\ m.bestj + m.bestsize < bhi
              THEN matching_size(a, b, m.besti + m.bestsize, ahi, m.bestj + m.bestsize, bhi)
              ELSE 0)

\* difflib.SequenceMatcher(None, a, b).ratio(); the autojunk heuristic
\* only acts on a second text of 200 characters or more
ratio(a, b) ==
  IF Len(a) + Len(b) = 0 THEN ROne
  ELSE Rat(2 * matching_size(a, b, 0, Len(a), 0, Len(b)), Len(a) + Len(b))

Detector_calculate_similarity(text1, text2) ==
  ratio(SubNonWord(Lower(text1)), SubNonWord(Lower(text2)))

Detector_classify_match(similarity) ==
  IF RGeq(similarity, Rat(9, 10)) THEN "exact"
  ELSE IF RGeq(similarity, Rat(75, 100)) THEN "near_exact"
  ELSE IF RGeq(similarity, Rat(6, 10)) THEN "paraphrased"
  ELSE "semantic"

Detector_deduplicate_results(results) ==
  LET first == {k \in 1..Len(results) :
                  /\ results[k].url # ""
                  /\ \A m \in 1..(k - 1) : results[m].url # results[k].url}
      rank(k) == Cardinality({m \in first : m <= k})
  IN  [p \in 1..Cardinality(first) |-> results[CHOOSE k \in first : rank(k) = p]]

\* _search_google
Detector_search_google == <<>>

\* Variant of the adapters that returns a result built from the error page
\* when the request failed
Mut_parse_response_error_page(outcome, provider) ==
  IF ~outcome.ok
  THEN << [title |-> <<"E","r","r","o","r">>, url |-> "https://error.example/", snippet |-> <<>>,
           source |-> provider] >>
  ELSE LET page == PySlice(outcome.entries, 0, max_search_results)
           good == SelectSeq(page,
                     LAMBDA e : e.title # <<>> /\ e.url # "" /\ e.snippet # <<>>)
       IN  [k \in 1..Len(good) |->
              [title |-> good[k].title, url |-> good[k].url,
               snippet |-> good[k].snippet, source |-> provider]]

\* _search_bing and _search_duckduckgo on one response of the provider:
\* a failed request or parse returns [], a page gives its first
\* max_search_results entries that have a title, a url and a snippet
Detector_parse_response(outcome, provider) ==
  IF ~outcome.ok THEN <<>>
  ELSE LET page == PySlice(outcome.entries, 0, max_search_results)
           good == SelectSeq(page,
                     LAMBDA e : e.title # <<>> /\ e.url # "" /\ e.snippet # <<>>)
       IN  [k \in 1..Len(good) |->
              [title |-> good[k].title, url |-> good[k].url,
               snippet |-> good[k].snippet, source |-> provider]]

Detector_search_bing(outcome) == Detector_parse_response(outcome, "bing")
Detector_search_duckduckgo(outcome) ==
  Detector_parse_response(outcome, "duckduckgo")

\* the exceptions the body of an adapter can raise: requests.get raises
\* ConnectionError or Timeout, raise_for_status raises HTTPError on a status
\* that is not 2xx (all three are requests.RequestException), the parsing of
\* the page any other Exception; aiohttp raises ClientError and
\* asyncio.TimeoutError in the adapters of AcademicSearch
RequestException == {"ConnectionError", "Timeout", "HTTPError"}
PyException ==
  RequestException \cup {"ParseError", "ClientError", "TimeoutError"}

\* Variant of the except clauses without the final except Exception
Mut_handlers_request_only == << RequestException >>

\* the except clauses of _search_bing and of _search_duckduckgo, in order
Detector_handlers == << RequestException, PyException >>

\* the adapter lets the exception of its body out to its caller
Detector_search_raises(outcome) ==
  /\ outcome.error # "none"
  /\ \A k \in 1..Len(Detector_handlers) : outcome.error \notin Detector_handlers[k]

\* the request did not produce a page: it raised, timed out or got a status
\* other than 200
Fails(outcome) == outcome.error # "none" \/ outcome.status # 200

\* the outcomes a call of the provider can have in this run: every call of the
\* provider `isolated` fails
OutcomesOf(provider, outcomes) ==
  IF provider = isolated THEN {o \in outcomes : Fails(o)} ELSE outcomes

\* one call of an adapter as its caller sees it
Lookup(provider, outcome, raised, results) ==
  [provider |-> provider, error |-> outcome.error, status |-> outcome.status,
   raised |-> raised, results |-> IF raised THEN <<>> ELSE results]

\* the search methods of _search_sentence_comprehensive, in order
DetectorProviders == << "google", "bing", "duckduckgo" >>

\* the end of _search_sentence_comprehensive
Detector_search_results(results) ==
  PySlice(Detector_deduplicate_results(results), 0, max_search_results)

---------------------------------------------------------------------------
(* The documents and the provider responses of the model *)

Fragments ==
  <<
    \* "Machine learning algorithms and data processing. "
    <<"M","a","c","h","i","n","e"," ","l","e","a","r","n","i","n","g"," ","a","l","g","o","r","i","t","h","m","s"," ","a","n","d"," ","d","a","t","a"," ","p","r","o","c","e","s","s","i","n","g","."," ">>,
    \* "However deep learning networks! "
    <<"H","o","w","e","v","e","r"," ","d","e","e","p"," ","l","e","a","r","n","i","n","g"," ","n","e","t","w","o","r","k","s","!"," ">>,
    \* "Too short. \n"
    <<"T","o","o"," ","s","h","o","r","t","."," ","\n">>,
    \* "a b c d e f g h i j?! "
    <<"a"," ","b"," ","c"," ","d"," ","e"," ","f"," ","g"," ","h"," ","i"," ","j","?","!"," ">>,
    \* "a b c d e f g h i "
    <<"a"," ","b"," ","c"," ","d"," ","e"," ","f"," ","g"," ","h"," ","i"," ">>
  >>

\* "A b c d e f g h i j."
SnippetSame ==
  <<"A"," ","b"," ","c"," ","d"," ","e"," ","f"," ","g"," ","h"," ","i"," ","j",".">>

\* "a b c d e f g h i zzz"
SnippetNine ==
  <<"a"," ","b"," ","c"," ","d"," ","e"," ","f"," ","g"," ","h"," ","i"," ","z","z","z">>

\* "a b c d e f z"
SnippetThreeQuarters ==
  <<"a"," ","b"," ","c"," ","d"," ","e"," ","f"," ","z">>

\* "a b c d ezz"
SnippetSix ==
  <<"a"," ","b"," ","c"," ","d"," ","e","z","z">>

\* "a b c d"
SnippetLow ==
  <<"a"," ","b"," ","c"," ","d">>

RECURSIVE Concat(_)
Concat(ss) == IF ss = <<>> THEN <<>> ELSE Head(ss) \o Concat(Tail(ss))

\* "Artificial intelligence and machine learning have revolutionized the world."
ScenarioText ==
  <<"A","r","t","i","f","i","c","i","a","l"," ","i","n","t","e","l","l","i","g","e","n","c","e"," ","a","n","d"," ","m","a","c","h","i","n","e"," ","l","e","a","r","n","i","n","g"," ","h","a","v","e"," ","r","e","v","o","l","u","t","i","o","n","i","z","e","d"," ","t","h","e"," ","w","o","r","l","d",".">>

\* every concatenation of at most MaxFrags fragments, the empty text included,
\* and the text of the scenario
Docs ==
  { Concat([k \in 1..Len(f) |-> Fragments[f[k]]]) :
      f \in UNION { [1..n -> 1..Len(Fragments)] : n \in 0..MaxFrags } }
  \cup { ScenarioText }

\* "Artificial intelligence and machine learning"
CappedText ==
  <<"A","r","t","i","f","i","c","i","a","l"," ","i","n","t","e","l","l","i","g","e","n","c","e"," ","a","n","d"," ","m","a","c","h","i","n","e"," ","l","e","a","r","n","i","n","g">>

\* "Artificial intelligence ", 113 times "aaaa ", "data analysis"
LongText ==
  <<"A","r","t","i","f","i","c","i","a","l"," ","i","n","t","e","l","l","i","g","e","n","c","e"," ">>
  \o [k \in 1..565 |-> IF k % 5 = 0 THEN " " ELSE "a"]
  \o <<"d","a","t","a"," ","a","n","a","l","y","s","i","s">>

\* the documents whose aggregate similarity is computed match by match
SimilarityDocs ==
  { Concat([k \in 1..Len(f) |-> Fragments[f[k]]]) :
      f \in UNION { [1..n -> 1..Len(Fragments)] : n \in 1..MaxFragsTwice } }
  \cup { ScenarioText, CappedText, LongText }

\* the texts handed to _calculate_similarity: lower and upper case letters,
\* punctuation
SimilarityAlphabet == {"a", "b", "C", "?"}
SimilarityTexts ==
  UNION { [1..n -> SimilarityAlphabet] : n \in 0..MaxSimilarityLen }

\* the entry points that compute the aggregate similarity only
SimilarityEntries == {"analyzer_similarity", "main_similarity"}

Entries ==
  {"analyzer", "detector", "main", "academic", "calculate_similarity",
   "execute_with_rate_limit"}
    \cup SimilarityEntries

Entry(title, url, snippet) == [title |-> title, url |-> url, snippet |-> snippet]
RSame == Entry(<<"T","1">>, "https://a.example/1", SnippetSame)
RNine == Entry(<<"T","2">>, "https://b.example/2", SnippetNine)
RThreeQuarters == Entry(<<"T","3">>, "https://c.example/3", SnippetThreeQuarters)
RSix == Entry(<<"T","4">>, "https://d.example/4", SnippetSix)
RLow == Entry(<<"T","5">>, "https://a.example/1", SnippetLow)
RNoSnippet == Entry(<<"T","6">>, "https://e.example/6", <<>>)
\* the page of RSame as another provider titles it
RSameRetitled == Entry(<<"T","7">>, "https://a.example/1", SnippetSame)

\* a request that raises the exception e, and the one that fails to connect
Raising(e) == [ok |-> FALSE, error |-> e, status |-> 0, entries |-> <<>>]
Failed == Raising("ConnectionError")
\* a response of status 200 with the entries es
Page(es) == [ok |-> TRUE, error |-> "none", status |-> 200, entries |-> es]

\* what one request to Bing can produce
BingOutcomes ==
  { Failed, Raising("Timeout"), Raising("HTTPError"), Raising("ParseError"),
    Page(<<>>), Page(<<RSame, RLow, RNine>>),
    Page(<<RThreeQuarters, RNoSnippet, RSix>>), Page(<<RLow>>) }
\* what one request to DuckDuckGo can produce
DdgOutcomes ==
  { Failed, Raising("ParseError"), Page(<<RSix, RSame>>),
    Page(<<RSameRetitled>>) }

---------------------------------------------------------------------------
(* PlagiarismDetector: scoring and aggregation *)

\* _calculate_similarity is a pure function of its two texts: it is
\* tabulated once over the sentences and the snippets of the model
\* (@@ turns the function into an explicit table)
ModelSentences ==
  UNION { {vs[k] : k \in 1..Len(vs)} :
            vs \in {Detector_valid_sentences(d) : d \in Docs} }
ModelSnippets ==
  UNION { {o.entries[k].snippet : k \in 1..Len(o.entries)} :
            o \in BingOutcomes \cup DdgOutcomes }
SimilarityTable ==
  [p \in ModelSentences \X ModelSnippets |->
     Detector_calculate_similarity(p[1], p[2])] @@ << >>
Detector_similarity(sentence, snippet) == SimilarityTable[<< sentence, snippet >>]

\* Variant of the threshold test with 0.5 in the place of similarity_threshold
Mut_accepts_from_half(similarity) == RGeq(similarity, Rat(5, 10))

\* the threshold test of _search_batch
Detector_accepts(similarity) == RGeq(similarity, similarity_threshold)

\* the inner loop of _search_batch: the matches of one sentence
Detector_sentence_matches(sentence, sentence_index, search_results) ==
  LET scored == [k \in 1..Len(search_results) |->
                   [original_text |-> sentence,
                    matched_text |-> search_results[k].snippet,
                    similarity |-> Detector_similarity(
                                     sentence, search_results[k].snippet),
                    source_url |-> search_results[k].url,
                    source_title |-> search_results[k].title,
                    sentence_index |-> sentence_index]]
      kept == SelectSeq(scored, LAMBDA m : Detector_accepts(m.similarity))
  IN  [k \in 1..Len(kept) |->
         [original_text |-> kept[k].original_text,
          matched_text |-> kept[k].matched_text,
          similarity |-> kept[k].similarity,
          source_url |-> kept[k].source_url,
          source_title |-> kept[k].source_title,
          match_type |-> Detector_classify_match(kept[k].similarity),
          sentence_index |-> kept[k].sentence_index]]

\* Variant of _calculate_overall_similarity that divides the number of matches,
\* not of matched sentences, by the number of sentences and does not cap it
Mut_overall_similarity_per_match(sents, matches) ==
  IF sents = <<>> \/ matches = <<>> THEN RZero
  ELSE Rat(Len(matches), Len(sents))

Detector_calculate_overall_similarity(sents, matches) ==
  IF sents = <<>> \/ matches = <<>> THEN RZero
  ELSE LET matched_sentences ==
             {matches[k].sentence_index : k \in 1..Len(matches)}
       IN  RMin(Rat(Cardinality(matched_sentences), Len(sents)), ROne)

\* the urls of _extract_sources, in first-seen order
Detector_extract_sources(matches) ==
  LET first == {k \in 1..Len(matches) :
                  /\ matches[k].source_url # ""
                  /\ \A m \in 1..(k - 1) :
                       matches[m].source_url # matches[k].source_url}
      rank(k) == Cardinality({m \in first : m <= k})
  IN  [p \in 1..Cardinality(first) |->
         [title |-> matches[CHOOSE k \in first : rank(k) = p].source_title,
          url |-> matches[CHOOSE k \in first : rank(k) = p].source_url]]

Detector_create_empty_result ==
  [overall_similarity |-> RZero,
   matches |-> <<>>,
   sources |-> <<>>,
   total_sentences_analyzed |-> 0,
   matches_found |-> 0]

\* _create_error_result(str(e))
Detector_create_error_result ==
  [overall_similarity |-> RZero,
   matches |-> <<>>,
   sources |-> <<>>,
   total_sentences_analyzed |-> 0,
   matches_found |-> 0,
   error |-> "str(e)"]

Detector_result(sents, matches) ==
  [overall_similarity |-> Detector_calculate_overall_similarity(sents, matches),
   matches |-> matches,
   sources |-> Detector_extract_sources(matches),
   total_sentences_analyzed |-> Len(sents),
   matches_found |-> Len(matches)]

---------------------------------------------------------------------------
(* AcademicSearch: search_all_academic_sources *)

title_key_length == 50

\* the four adapters, in the order of search_tasks
AcademicProviders == << "arxiv", "crossref", "semantic_scholar", "pubmed" >>

\* "Deep Learning!"
TitleDeep ==
  <<"D","e","e","p"," ","L","e","a","r","n","i","n","g","!">>
\* "  deep learning"
TitleDeepPlain ==
  <<" "," ","d","e","e","p"," ","l","e","a","r","n","i","n","g">>
\* "Neural networks"
TitleNeural ==
  <<"N","e","u","r","a","l"," ","n","e","t","w","o","r","k","s">>
\* "A survey of plagiarism detection methods for academic texts: part one"
TitleLongA ==
  <<"A"," ","s","u","r","v","e","y"," ","o","f"," ","p","l","a","g","i","a","r","i","s","m"," ","d","e","t","e","c","t","i","o","n"," ","m","e","t","h","o","d","s"," ","f","o","r"," ","a","c","a","d","e","m","i","c"," ","t","e","x","t","s",":"," ","p","a","r","t"," ","o","n","e">>
\* "A survey of plagiarism detection methods for academic texts: part two"
TitleLongB ==
  <<"A"," ","s","u","r","v","e","y"," ","o","f"," ","p","l","a","g","i","a","r","i","s","m"," ","d","e","t","e","c","t","i","o","n"," ","m","e","t","h","o","d","s"," ","f","o","r"," ","a","c","a","d","e","m","i","c"," ","t","e","x","t","s",":"," ","p","a","r","t"," ","t","w","o">>
\* "Graph theory"
TitleGraph ==
  <<"G","r","a","p","h"," ","t","h","e","o","r","y">>

Paper(title, url) == [title |-> title, url |-> url]
PDeep == Paper(TitleDeep, "https://arxiv.example/1")
PDeepPlain == Paper(TitleDeepPlain, "https://doi.example/1")
PNeural == Paper(TitleNeural, "https://arxiv.example/2")
PNeuralAgain == Paper(TitleNeural, "https://arxiv.example/2")
PLongA == Paper(TitleLongA, "https://s2.example/1")
PLongB == Paper(TitleLongB, "https://s2.example/2")
PGraph == Paper(TitleGraph, "https://pubmed.example/1")
PUntitled == Paper(<<>>, "https://pubmed.example/2")

\* a response whose status is not 200
Status(code) == [ok |-> FALSE, error |-> "none", status |-> code, entries |-> <<>>]

\* what the request of each adapter can produce
AcademicOutcomes ==
  [arxiv |-> { Raising("ClientError"), Raising("TimeoutError"),
               Raising("ParseError"), Status(503), Page(<<>>),
               Page(<<PDeep, PNeural>>) },
   crossref |-> { Raising("ClientError"), Status(404),
                  Page(<<PDeepPlain, PNeuralAgain>>) },
   semantic_scholar |-> { Raising("TimeoutError"), Page(<<PLongA, PLongB>>) },
   pubmed |-> { Status(500), Page(<<PGraph, PUntitled, PNeural>>) }]

\* the values of the parameter max_results
AcademicMaxResults == {2, 10}

\* the except clause of _search_arxiv, _search_crossref,
\* _search_semantic_scholar and _search_pubmed: except Exception
Academic_handlers == << PyException >>

Academic_search_raises(outcome) ==
  /\ outcome.error # "none"
  /\ \A k \in 1..Len(Academic_handlers) : outcome.error \notin Academic_handlers[k]

\* what an adapter returns: the parsed results of a response of status 200,
\* [] after an exception or another status
Academic_search(outcome) ==
  IF outcome.error # "none" THEN <<>>
  ELSE IF outcome.status # 200 THEN <<>>
  ELSE outcome.entries

\* the key of _deduplicate_academic_results
Academic_title_key(title) ==
  PySlice(SubNonWord(Strip(Lower(title))), 0, title_key_length)

Academic_deduplicate_academic_results(results) ==
  LET first == {k \in 1..Len(results) :
                  \A m \in 1..(k - 1) :
                    Academic_title_key(results[m].title)
                      # Academic_title_key(results[k].title)}
  IN  SelectSeq([k \in 1..Len(results) |-> [at |-> k, paper |-> results[k]]],
                LAMBDA e : e.at \in first)

\* search_all_academic_sources after _execute_with_rate_limit: the lists
\* are combined, deduplicated and cut to max_results
Academic_result(results, limit) ==
  LET combined == Concat(results)
      unique == Academic_deduplicate_academic_results(combined)
  IN  [status |-> "completed",
       results |-> PySlice([k \in 1..Len(unique) |-> unique[k].paper], 0, limit)]

---------------------------------------------------------------------------
(* The state machine: one call of one entry point on one document *)

NoResult == [status |-> "none"]

\* the failure has happened
Raised(f) ==
  CASE f = "scoring" -> "scoring_raised"
    [] f = "aggregation" -> "aggregation_raised"
    [] OTHER -> f

\* the sequence without its k-th element (all of it for k = 0)
Without(s, k) == SelectSeq([p \in 1..Len(s) |-> [at |-> p, value |-> s[p]]],
                           LAMBDA e : e.at # k)

\* _search_batch: the results of which the scoring does not raise, for a
\* failure at the k-th result
ScoredResults(results, k) ==
  LET kept == Without(results, k)
  IN  [p \in 1..Len(kept) |-> kept[p].value]

NoTwin == [all_results |-> <<>>, all_matches |-> <<>>, task_results |-> <<>>]

\* no call has returned yet; calls is the number of calls the caller makes
NoCall(calls) ==
  [calls |-> calls, returned |-> FALSE, responses |-> <<>>, at |-> 1,
   result |-> NoResult]

\* the documents a caller analyzes twice: the concatenations of at most
\* MaxFragsTwice fragments
TwiceDocs ==
  { Concat([k \in 1..Len(f) |-> Fragments[f[k]]]) :
      f \in UNION { [1..n -> 1..Len(Fragments)] : n \in 0..MaxFragsTwice } }

\* the documents analyzed while another task is ready on the event loop:
\* those of TwiceDocs and one document of two batches
ConcurrentDocs ==
  TwiceDocs \cup { Concat([k \in 1..(batch_size + 1) |-> Fragments[4]]) }

\* the responses a provider can give to the next request: any of them in
\* the first call, the recorded one in the second call
Replayed(outcomes) ==
  IF ~first_call.returned THEN outcomes
  ELSE IF first_call.at <= Len(first_call.responses)
       THEN {first_call.responses[first_call.at]} \cap outcomes
       ELSE {}

\* the responses of a first call are kept for the second one, if there
\* is to be one
Recorded(outcome) ==
  IF first_call.returned THEN [first_call EXCEPT !.at = @ + 1]
  ELSE IF first_call.calls = 1 THEN first_call
  ELSE [first_call EXCEPT !.responses = Append(@, outcome)]

\* the awaitables handed to _execute_with_rate_limit: a task returns a list
\* of results or raises
TaskKinds ==
  { [raises |-> TRUE, results |-> <<>>],
    [raises |-> FALSE, results |-> <<>>],
    [raises |-> FALSE, results |-> <<PDeep>>],
    [raises |-> FALSE, results |-> <<PNeural, PGraph>>] }
TaskLists == UNION { [1..n -> TaskKinds] : n \in 0..MaxTasks }

\* the unexpected failures: none, or one exception raised inside the
\* scoring of a result, or inside the aggregation
Faults == {"none", "scoring", "aggregation"}

Init ==
  /\ entry \in Entries
  /\ first_call \in {NoCall(calls) : calls \in 1..MaxCalls}
  /\ fault \in (IF entry \in {"analyzer", "detector"} /\ first_call.calls = 1
                THEN Faults ELSE {"none"})
  /\ other_task \in (IF /\ entry = "detector" /\ first_call.calls = 1
                        /\ fault = "none"
                     THEN {"none", "ready"} ELSE {"none"})
  /\ second_text \in (IF entry = "calculate_similarity" THEN SimilarityTexts
                ELSE {<<>>})
  /\ tasks \in (IF entry = "execute_with_rate_limit" THEN TaskLists
                ELSE {<<>>})
  /\ text \in (IF entry = "academic" THEN {Fragments[1]}
               ELSE IF entry = "execute_with_rate_limit" THEN {<<>>}
               ELSE IF entry = "calculate_similarity" THEN SimilarityTexts
               ELSE IF entry \in SimilarityEntries THEN SimilarityDocs
               ELSE IF other_task # "none" THEN ConcurrentDocs
               ELSE IF first_call.calls = 1 /\ fault = "none" THEN Docs
               ELSE TwiceDocs)
  /\ max_results \in (IF entry = "academic" THEN AcademicMaxResults ELSE {0})
  /\ task_results = <<>>
  /\ isolated \in (CASE \/ first_call.calls > 1 \/ fault # "none"
                         \/ other_task # "none" -> {"none"}
                    [] entry = "detector" -> {"none", "bing", "duckduckgo"}
                    [] entry = "academic" -> {"none"} \cup Range(AcademicProviders)
                    [] OTHER -> {"none"})
  /\ twin = NoTwin
  /\ pc = "start"
  /\ clean_text = <<>>
  /\ sentences = <<>>
  /\ extracted_text = <<>>
  /\ valid_sentences = <<>>
  /\ i = 0
  /\ j = 0
  /\ all_results = <<>>
  /\ lookups = <<>>
  /\ searched = <<>>
  /\ batch_matches = <<>>
  /\ all_matches = <<>>
  /\ sleeps = 0
  /\ result = NoResult

DetectorVars == << valid_sentences, i, j, all_results, lookups, searched,
                   max_results, task_results, isolated, twin, batch_matches,
                   all_matches, sleeps >>

\* PlagiarismAnalyzer.analyze_document: _clean_text, _split_into_sentences
AnalyzerPrepare ==
  /\ entry = "analyzer" /\ pc = "start"
  /\ clean_text' = Analyzer_clean_text(text)
  /\ sentences' = Analyzer_split_into_sentences(Analyzer_clean_text(text))
  /\ pc' = "matching"
  /\ UNCHANGED << entry, text, tasks, other_task, second_text, fault, first_call, extracted_text, DetectorVars, result >>

\* PlagiarismAnalyzer.analyze_document: _find_matches, the aggregation and
\* the result; an exception of either is re-raised as
\* Exception("Failed to analyze document: ...")
AnalyzerFinish ==
  /\ entry = "analyzer" /\ pc = "matching"
  /\ IF fault = "none"
     THEN result' = Analyzer_result(text, clean_text, sentences)
          /\ fault' = fault
     ELSE result' = Analyzer_raised /\ fault' = Raised(fault)
  /\ pc' = "done"
  /\ UNCHANGED << entry, text, tasks, other_task, second_text, first_call, clean_text, sentences, extracted_text,
                  DetectorVars >>

\* main.analyze_document: the extraction and the length check; ValueError is
\* re-raised as Exception("Document analysis failed: ...")
MainExtract ==
  /\ entry = "main" /\ pc = "start"
  /\ extracted_text' = extract_text_from_file(text)
  /\ IF Main_too_short(extract_text_from_file(text))
     THEN result' = Main_raised /\ pc' = "done"
     ELSE result' = result /\ pc' = "simulate"
  /\ UNCHANGED << entry, text, tasks, other_task, second_text, fault, first_call, clean_text, sentences, DetectorVars >>

\* main.analyze_document: simulate_plagiarism_check(extracted_text, filename)
MainSimulate ==
  /\ entry = "main" /\ pc = "simulate"
  /\ result' = simulate_plagiarism_check(extracted_text)
  /\ pc' = "done"
  /\ UNCHANGED << entry, text, tasks, other_task, second_text, fault, first_call, clean_text, sentences, extracted_text,
                  DetectorVars >>

\* Variant of the start in which all_matches is kept from one call to the
\* next, as an attribute of the detector would be
Mut_DetectorStart_keeps_all_matches ==
  /\ UNCHANGED << max_results, task_results, isolated >>
  /\ entry = "detector" /\ pc = "start"
  /\ valid_sentences' = Detector_valid_sentences(text)
  /\ all_matches' = all_matches
  /\ i' = 0 /\ j' = 0
  /\ sleeps' = 0
  /\ searched' = <<>>
  /\ twin' = NoTwin
  /\ IF Detector_valid_sentences(text) = <<>>
     THEN result' = Detector_create_empty_result /\ pc' = "done"
     ELSE result' = result /\ pc' = "bing"
  /\ UNCHANGED << entry, text, tasks, other_task, second_text, fault, first_call, clean_text, sentences,
                  extracted_text, all_results, lookups, batch_matches >>

\* PlagiarismDetector.analyze_document up to the first batch: all_matches
\* is a new list and the loop starts at i = 0
DetectorStart ==
  /\ UNCHANGED << max_results, task_results, isolated >>
  /\ entry = "detector" /\ pc = "start"
  /\ valid_sentences' = Detector_valid_sentences(text)
  /\ all_matches' = <<>>
  /\ i' = 0 /\ j' = 0
  /\ sleeps' = 0
  /\ searched' = <<>>
  /\ twin' = NoTwin
  /\ IF Detector_valid_sentences(text) = <<>>
     THEN result' = Detector_create_empty_result /\ pc' = "done"
     ELSE result' = result /\ pc' = "bing"
  /\ UNCHANGED << entry, text, tasks, other_task, second_text, fault, first_call, clean_text, sentences,
                  extracted_text, all_results, lookups, batch_matches >>

\* the sentence _search_batch is at
Sentence == valid_sentences[i + j + 1]
\* Variant of the batch that holds one sentence more than batch_size
Mut_Batch_one_more == PySlice(valid_sentences, i, i + batch_size + 1)

\* the batch valid_sentences[i:i + batch_size]
Batch == PySlice(valid_sentences, i, i + batch_size)

\* _search_batch calls _search_sentence_comprehensive(sentence) for the next
\* sentence of the batch; _search_bing: requests.get(url, ...) sends the
\* request and the thread waits for the response inside the call
BingRequest ==
  /\ entry = "detector" /\ pc = "bing"
  /\ pc' = "bing_in_flight"
  /\ searched' = Append(searched, [sentence |-> Sentence, index |-> i + j,
                                    start_index |-> i])
  /\ UNCHANGED << entry, text, tasks, other_task, second_text, fault, first_call,
                  clean_text, sentences, extracted_text, valid_sentences, i, j,
                  all_results, lookups, max_results, task_results, isolated,
                  twin, batch_matches, all_matches, sleeps, result >>

\* _search_duckduckgo, called if not all_results: requests.get(url, ...)
DdgRequest ==
  /\ entry = "detector" /\ pc = "ddg"
  /\ all_results = <<>>
  /\ pc' = "ddg_in_flight"
  /\ UNCHANGED << entry, text, tasks, other_task, second_text, fault, first_call,
                  clean_text, sentences, extracted_text, DetectorVars, result >>

\* the points at which the coroutine of the entry point is suspended and the
\* event loop runs: `await asyncio.sleep(2)` between two batches; the calls of
\* requests.get do not return to the event loop
Suspended == entry = "detector" /\ pc = "sleep"

\* the event loop runs the other task for a step, while the analysis is
\* suspended or before and after it runs
OtherTaskStep ==
  /\ other_task = "ready"
  /\ Suspended \/ pc \in {"start", "done"}
  /\ other_task' = "stepped"
  /\ UNCHANGED << entry, text, tasks, pc, second_text, fault, first_call,
                  clean_text, sentences, extracted_text, DetectorVars, result >>

\* _search_sentence_comprehensive: _search_google, then _search_bing; an
\* exception of either is logged and the method goes on
BingCall ==
  /\ UNCHANGED << searched, max_results, task_results, isolated >>
  /\ entry = "detector" /\ pc = "bing_in_flight"
  /\ \E outcome \in Replayed(OutcomesOf("bing", BingOutcomes)) :
       LET raised == Detector_search_raises(outcome)
           bing_results == IF raised THEN <<>> ELSE Detector_search_bing(outcome)
       IN  /\ all_results' = Detector_search_google \o bing_results
           /\ twin' = [twin EXCEPT !.all_results =
                         IF isolated = "bing" THEN Detector_search_google
                         ELSE Detector_search_google \o bing_results]
           /\ first_call' = Recorded(outcome)
           /\ lookups' = << Lookup("google", Page(<<>>), FALSE, Detector_search_google),
                            Lookup("bing", outcome, raised, bing_results) >>
  /\ pc' = "ddg"
  /\ UNCHANGED << entry, text, tasks, other_task, second_text, fault, clean_text, sentences, extracted_text,
                  valid_sentences, i, j, batch_matches, all_matches, sleeps,
                  result >>

\* _search_sentence_comprehensive: _search_duckduckgo, only if not all_results
DdgCall ==
  /\ UNCHANGED << searched, max_results, task_results, isolated >>
  /\ entry = "detector" /\ pc = "ddg_in_flight"
  /\ all_results = <<>>
  /\ \E outcome \in Replayed(OutcomesOf("duckduckgo", DdgOutcomes)) :
       LET raised == Detector_search_raises(outcome)
           ddg_results == IF raised THEN <<>>
                          ELSE Detector_search_duckduckgo(outcome)
       IN  /\ all_results' = all_results \o ddg_results
           /\ twin' = [twin EXCEPT !.all_results =
                         IF isolated # "duckduckgo" /\ twin.all_results = <<>>
                         THEN ddg_results ELSE @]
           /\ first_call' = Recorded(outcome)
           /\ lookups' = Append(lookups,
                            Lookup("duckduckgo", outcome, raised, ddg_results))
  /\ pc' = "score"
  /\ UNCHANGED << entry, text, tasks, other_task, second_text, fault, clean_text, sentences, extracted_text,
                  valid_sentences, i, j, batch_matches, all_matches, sleeps,
                  result >>

\* _search_sentence_comprehensive: all_results is not empty and
\* _search_duckduckgo is not called (the twin run calls it if its own
\* all_results is empty)
DdgSkip ==
  /\ UNCHANGED << searched, max_results, task_results, isolated >>
  /\ entry = "detector" /\ pc = "ddg"
  /\ all_results # <<>>
  /\ IF isolated # "duckduckgo" /\ twin.all_results = <<>>
     THEN \E outcome \in DdgOutcomes :
            twin' = [twin EXCEPT !.all_results =
                      IF Detector_search_raises(outcome) THEN <<>>
                      ELSE Detector_search_duckduckgo(outcome)]
     ELSE twin' = twin
  /\ pc' = "score"
  /\ UNCHANGED << entry, text, tasks, other_task, second_text, fault, first_call, clean_text, sentences, extracted_text,
                  valid_sentences, i, j, all_results, lookups, batch_matches,
                  all_matches, sleeps, result >>

\* _search_batch: the results of the sentence are scored and the loop goes
\* to the next sentence of the batch; an exception raised while a result is
\* scored is logged and the loop goes on with the next result
ScoreSentence ==
  /\ UNCHANGED << searched, max_results, task_results, isolated >>
  /\ entry = "detector" /\ pc = "score"
  /\ \E failing \in (IF fault = "scoring"
                     THEN 0..Len(Detector_search_results(all_results))
                     ELSE {0}) :
       /\ batch_matches' = batch_matches \o
            Detector_sentence_matches(Sentence, i + j,
              ScoredResults(Detector_search_results(all_results), failing))
       /\ twin' = [twin EXCEPT !.all_matches = @ \o
            Detector_sentence_matches(Sentence, i + j,
              ScoredResults(Detector_search_results(twin.all_results), failing))]
       /\ fault' = IF failing > 0 THEN Raised(fault) ELSE fault
  /\ j' = j + 1
  /\ lookups' = <<>>
  /\ pc' = IF j + 1 < Len(Batch) THEN "bing" ELSE "batch_end"
  /\ UNCHANGED << entry, text, tasks, other_task, second_text, first_call, clean_text, sentences, extracted_text,
                  valid_sentences, i, all_results, all_matches, sleeps,
                  result >>

\* Variant of the end of a batch that puts the matches of the batch in
\* front of all_matches
Mut_BatchEnd_prepends ==
  /\ UNCHANGED << searched, max_results, task_results, isolated, twin >>
  /\ entry = "detector" /\ pc = "batch_end"
  /\ all_matches' = batch_matches \o all_matches
  /\ batch_matches' = <<>>
  /\ pc' = IF i + batch_size < Len(valid_sentences) THEN "sleep" ELSE "aggregate"
  /\ UNCHANGED << entry, text, tasks, other_task, second_text, fault, first_call, clean_text, sentences, extracted_text,
                  valid_sentences, i, j, all_results, lookups, sleeps,
                  result >>

\* analyze_document: all_matches.extend(batch_matches) and the test that
\* decides whether a delay and another batch follow
BatchEnd ==
  /\ UNCHANGED << searched, max_results, task_results, isolated, twin >>
  /\ entry = "detector" /\ pc = "batch_end"
  /\ all_matches' = all_matches \o batch_matches
  /\ batch_matches' = <<>>
  /\ pc' = IF i + batch_size < Len(valid_sentences) THEN "sleep" ELSE "aggregate"
  /\ UNCHANGED << entry, text, tasks, other_task, second_text, fault, first_call, clean_text, sentences, extracted_text,
                  valid_sentences, i, j, all_results, lookups, sleeps,
                  result >>

\* analyze_document: await asyncio.sleep(2), then the next batch
Sleep ==
  /\ UNCHANGED << searched, max_results, task_results, isolated, twin >>
  /\ entry = "detector" /\ pc = "sleep"
  /\ sleeps' = sleeps + 1
  /\ i' = i + batch_size
  /\ j' = 0
  /\ pc' = "bing"
  /\ UNCHANGED << entry, text, tasks, other_task, second_text, fault, first_call, clean_text, sentences, extracted_text,
                  valid_sentences, all_results, lookups, batch_matches,
                  all_matches, result >>

\* analyze_document: _calculate_overall_similarity, _extract_sources, result;
\* an exception of these is caught and _create_error_result is returned
Aggregate ==
  /\ entry = "detector" /\ pc = "aggregate"
  /\ IF fault = "aggregation"
     THEN result' = Detector_create_error_result /\ fault' = Raised(fault)
     ELSE result' = Detector_result(valid_sentences, all_matches)
          /\ fault' = fault
  /\ pc' = "done"
  /\ UNCHANGED << entry, text, tasks, other_task, second_text, first_call, clean_text, sentences, extracted_text,
                  DetectorVars >>

\* search_all_academic_sources: the four coroutines of search_tasks are
\* created; none of them runs before _execute_with_rate_limit awaits it
AcademicStart ==
  /\ entry = "academic" /\ pc = "start"
  /\ task_results' = <<>>
  /\ lookups' = <<>>
  /\ sleeps' = 0
  /\ twin' = NoTwin
  /\ pc' = "tasks"
  /\ UNCHANGED << entry, text, tasks, searched, other_task, second_text, fault, first_call, clean_text, sentences,
                  extracted_text, valid_sentences, i, j, all_results,
                  max_results, isolated, batch_matches, all_matches, result >>

\* _execute_with_rate_limit: one turn of the loop awaits the next task; its
\* result is appended and request_delay is slept, or, if the task raised, []
\* is appended without a delay
AcademicTask ==
  /\ entry = "academic" /\ pc = "tasks"
  /\ Len(task_results) < Len(AcademicProviders)
  /\ LET provider == AcademicProviders[Len(task_results) + 1]
     IN  \E outcome \in Replayed(OutcomesOf(provider, AcademicOutcomes[provider])) :
           LET raised == Academic_search_raises(outcome)
               found == IF raised THEN <<>> ELSE Academic_search(outcome)
           IN  /\ task_results' = Append(task_results, found)
               /\ twin' = [twin EXCEPT !.task_results =
                             IF provider = isolated THEN @ ELSE Append(@, found)]
               /\ first_call' = Recorded(outcome)
               /\ lookups' = Append(lookups,
                                Lookup(provider, outcome, raised, found))
               /\ sleeps' = IF raised THEN sleeps ELSE sleeps + 1
  /\ UNCHANGED << entry, text, tasks, searched, other_task, second_text, fault, pc, clean_text, sentences, extracted_text,
                  valid_sentences, i, j, all_results, max_results, isolated,
                  batch_matches, all_matches, result >>

\* _execute_with_rate_limit(tasks): results = []
ExecuteStart ==
  /\ entry = "execute_with_rate_limit" /\ pc = "start"
  /\ task_results' = <<>>
  /\ lookups' = <<>>
  /\ sleeps' = 0
  /\ pc' = "tasks"
  /\ UNCHANGED << entry, text, tasks, searched, other_task, second_text, fault,
                  first_call, clean_text, sentences, extracted_text,
                  valid_sentences, i, j, all_results, max_results, isolated,
                  twin, batch_matches, all_matches, result >>

\* _execute_with_rate_limit: `await task` starts the next task of the list
ExecuteAwait ==
  /\ entry = "execute_with_rate_limit" /\ pc = "tasks"
  /\ Len(lookups) < Len(tasks)
  /\ lookups' = Append(lookups, Len(lookups) + 1)
  /\ pc' = "task_in_flight"
  /\ UNCHANGED << entry, text, tasks, searched, other_task, second_text, fault,
                  first_call, clean_text, sentences, extracted_text,
                  valid_sentences, i, j, all_results, max_results,
                  task_results, isolated, twin, batch_matches, all_matches,
                  sleeps, result >>

\* Variant of the end of a task that appends nothing for a task that raised
Mut_ExecuteTaskEnd_drops_raised ==
  /\ entry = "execute_with_rate_limit" /\ pc = "task_in_flight"
  /\ LET task == tasks[Len(lookups)]
     IN  IF task.raises
         THEN task_results' = task_results /\ sleeps' = sleeps
         ELSE task_results' = Append(task_results, task.results)
              /\ sleeps' = sleeps + 1
  /\ pc' = "tasks"
  /\ UNCHANGED << entry, text, tasks, searched, other_task, second_text, fault,
                  first_call, clean_text, sentences, extracted_text,
                  valid_sentences, i, j, all_results, lookups, max_results,
                  isolated, twin, batch_matches, all_matches, result >>

\* _execute_with_rate_limit: the awaited task ends; its result is appended
\* and request_delay is slept, or, if it raised, [] is appended
ExecuteTaskEnd ==
  /\ entry = "execute_with_rate_limit" /\ pc = "task_in_flight"
  /\ LET task == tasks[Len(lookups)]
     IN  IF task.raises
         THEN task_results' = Append(task_results, <<>>) /\ sleeps' = sleeps
         ELSE task_results' = Append(task_results, task.results)
              /\ sleeps' = sleeps + 1
  /\ pc' = "tasks"
  /\ UNCHANGED << entry, text, tasks, searched, other_task, second_text, fault,
                  first_call, clean_text, sentences, extracted_text,
                  valid_sentences, i, j, all_results, lookups, max_results,
                  isolated, twin, batch_matches, all_matches, result >>

\* _execute_with_rate_limit: return results
ExecuteReturn ==
  /\ entry = "execute_with_rate_limit" /\ pc = "tasks"
  /\ Len(lookups) = Len(tasks)
  /\ result' = [status |-> "returned", results |-> task_results]
  /\ pc' = "done"
  /\ UNCHANGED << entry, text, tasks, searched, other_task, second_text, fault,
                  first_call, clean_text, sentences, extracted_text,
                  valid_sentences, i, j, all_results, lookups, max_results,
                  task_results, isolated, twin, batch_matches, all_matches,
                  sleeps >>

\* search_all_academic_sources: the results are combined and returned
AcademicCombine ==
  /\ entry = "academic" /\ pc = "tasks"
  /\ Len(task_results) = Len(AcademicProviders)
  /\ result' = Academic_result(task_results, max_results)
  /\ pc' = "done"
  /\ UNCHANGED << entry, text, tasks, other_task, second_text, fault, first_call, clean_text, sentences, extracted_text,
                  DetectorVars >>

\* PlagiarismDetector._calculate_similarity(text, second_text): text1 is
\* text and text2 is second_text
CalculateSimilarity ==
  /\ entry = "calculate_similarity" /\ pc = "start"
  /\ result' = [status |-> "similarity",
                similarity |-> Detector_calculate_similarity(text, second_text)]
  /\ pc' = "done"
  /\ UNCHANGED << entry, text, tasks, other_task, second_text, fault, first_call, clean_text, sentences,
                  extracted_text, DetectorVars >>

\* the matches the entry point finds in the text, in the order of its list
MatchesFound ==
  IF entry = "analyzer_similarity"
  THEN Analyzer_find_matches(Analyzer_clean_text(text), <<>>)
  ELSE create_realistic_matches(text)

\* _calculate_overall_similarity(clean_text, matches) of the analyzer, or
\* the overall_similarity of simulate_plagiarism_check
SimilarityOf(matches) ==
  IF entry = "analyzer_similarity"
  THEN Analyzer_calculate_overall_similarity(Analyzer_clean_text(text), matches)
  ELSE Main_overall_similarity(text, matches)

\* the aggregate similarity is computed for the matches accepted so far
\* and one more match of the text
AcceptMatch ==
  /\ entry \in SimilarityEntries /\ pc = "start"
  /\ Len(all_matches) < Len(MatchesFound)
  /\ all_matches' = Append(all_matches, MatchesFound[Len(all_matches) + 1])
  /\ result' = [status |-> "similarity",
                overallSimilarity |->
                  SimilarityOf(Append(all_matches,
                                      MatchesFound[Len(all_matches) + 1]))]
  /\ UNCHANGED << entry, text, tasks, searched, other_task, second_text, fault, first_call, pc, clean_text, sentences,
                  extracted_text, valid_sentences, i, j, all_results, lookups,
                  max_results, task_results, isolated, twin, batch_matches,
                  sleeps >>

\* the caller calls the entry point again, on the same object and the same
\* text: the result of the first call is kept for the comparison and the
\* providers answer as they did
CallAgain ==
  /\ pc = "done" /\ ~first_call.returned /\ first_call.calls > 1
  /\ first_call' = [first_call EXCEPT !.returned = TRUE, !.result = result]
  /\ pc' = "start"
  /\ UNCHANGED << entry, text, tasks, other_task, second_text, fault, clean_text, sentences, extracted_text,
                  DetectorVars, result >>

Next ==
  \/ ExecuteStart
  \/ ExecuteAwait
  \/ ExecuteTaskEnd
  \/ ExecuteReturn
  \/ OtherTaskStep
  \/ BingRequest
  \/ DdgRequest
  \/ CalculateSimilarity
  \/ AcceptMatch
  \/ CallAgain
  \/ AcademicStart
  \/ AcademicTask
  \/ AcademicCombine
  \/ AnalyzerPrepare
  \/ AnalyzerFinish
  \/ MainExtract
  \/ MainSimulate
  \/ DetectorStart
  \/ BingCall
  \/ DdgCall
  \/ DdgSkip
  \/ ScoreSentence
  \/ BatchEnd
  \/ Sleep
  \/ Aggregate

Spec == Init /\ [][Next]_vars

---------------------------------------------------------------------------
(* Properties *)

\* the entry point has returned a result (it has not raised)
Returned ==
  /\ pc = "done" /\ entry \in {"analyzer", "detector", "main"}
  /\ entry \in {"analyzer", "main"} => result.status = "completed"

\* the overall similarity of the returned result
OverallSimilarity ==
  IF entry = "detector" THEN result.overall_similarity
  ELSE result.overallSimilarity

\* every match the detector holds: of the batch, of the run, of the result
DetectorMatches ==
  IF entry = "detector"
  THEN batch_matches \o all_matches
       \o (IF pc = "done" THEN result.matches ELSE <<>>)
  ELSE <<>>

\* C1: the overall similarity returned by each of the three entry points is
\* a well-formed fraction between 0 and 1.
C1_SimilarityInUnitInterval ==
  Returned =>
    /\ OverallSimilarity.den > 0
    /\ RLeq(RZero, OverallSimilarity)
    /\ RLeq(OverallSimilarity, ROne)

\* C1, witness: the detector returned more matches than it analyzed sentences
\* and its overall similarity is 1.
C1_Witness ==
  /\ Returned /\ entry = "detector"
  /\ Len(result.matches) > Len(valid_sentences)
  /\ REq(OverallSimilarity, ROne)

\* the risk table of the specification
SpecRiskLevel(x) ==
  IF RLt(x, Rat(10, 100)) THEN "Low"
  ELSE IF RLt(x, Rat(40, 100)) THEN "Medium"
  ELSE "High"

\* C2: the riskLevel of every returned result is the tier that the table
\* Low < 0.10 <= Medium < 0.40 <= High gives for the result's own
\* overallSimilarity (the detector's result carries no riskLevel).
C2_RiskLevelFollowsTable ==
  (Returned /\ entry # "detector") =>
    result.riskLevel = SpecRiskLevel(result.overallSimilarity)

\* the fraction of n offsets that the ranges of the matches ms cover
Coverage(ms, n) ==
  IF n = 0 THEN RZero ELSE Rat(Cardinality(CoveredPositions(ms)), n)

\* the number of characters of the sentences that have a match
MatchedSentenceChars ==
  LET matched == {m.sentence_index : m \in Range(result.matches)}
  IN  SumSeq([k \in 1..Len(valid_sentences) |->
                IF (k - 1) \in matched THEN Len(valid_sentences[k]) ELSE 0])

\* C3: overallSimilarity is the number of distinct offsets covered by the
\* union of the matches' ranges divided by the document length: of the
\* normalized text for the analyzer, of the extracted text for
\* simulate_plagiarism_check; a match of the detector covers its sentence.
C3_SimilarityIsCoverage ==
  Returned =>
    CASE entry = "analyzer" ->
           REq(result.overallSimilarity,
               Coverage(result.matches, Len(clean_text)))
      [] entry = "main" ->
           REq(result.overallSimilarity,
               Coverage(result.matches, Len(extracted_text)))
      [] entry = "detector" ->
           REq(result.overall_similarity,
               IF Len(text) = 0 THEN RZero
               ELSE Rat(MatchedSentenceChars, Len(text)))

Region(m) ==
  IF entry = "detector" THEN << m.sentence_index >>
  ELSE << m.startIndex, m.endIndex >>

\* C5: no two matches of a returned result are on the same region (for the
\* detector, on the same sentence).
C5_OneMatchPerRegion ==
  Returned =>
    \A a, b \in 1..Len(result.matches) :
      a # b => Region(result.matches[a]) # Region(result.matches[b])

\* m1 may come right before m2 in a list sorted by descending similarity,
\* ties by ascending start offset
InOrder(m1, m2) ==
  IF entry = "detector"
  THEN \/ RLt(m2.similarity, m1.similarity)
       \/ /\ REq(m1.similarity, m2.similarity)
          /\ m1.sentence_index <= m2.sentence_index
  ELSE \/ m2.similarity < m1.similarity
       \/ /\ m1.similarity = m2.similarity
          /\ m1.startIndex <= m2.startIndex

\* C6: the matches of a returned result are sorted by descending similarity,
\* equal similarities by ascending start offset.
C6_SortedBySimilarityThenOffset ==
  Returned =>
    \A k \in 1..(Len(result.matches) - 1) :
      InOrder(result.matches[k], result.matches[k + 1])

\* C7: every match the detector holds has the similarity that the scorer
\* computes for its sentence and its snippet, and that similarity is at
\* least the threshold 0.6.
C7_MatchesReachThreshold ==
  \A m \in Range(DetectorMatches) :
    /\ m.similarity = Detector_similarity(m.original_text, m.matched_text)
    /\ RGeq(m.similarity, similarity_threshold)

\* C7, witness: at the end of a batch, a result of the last sentence scored
\* below the threshold and the batch holds no match of that sentence with it.
C7_Witness ==
  /\ entry = "detector" /\ pc = "batch_end"
  /\ \E r \in Range(Detector_search_results(all_results)) :
       /\ RLt(Detector_similarity(valid_sentences[i + j], r.snippet),
              similarity_threshold)
       /\ \A m \in Range(batch_matches) :
            ~(m.sentence_index = i + j - 1 /\ m.matched_text = r.snippet)

\* the match type the specification gives to a similarity
SpecMatchType(x) ==
  IF RGeq(x, Rat(9, 10)) THEN "exact"
  ELSE IF RGeq(x, Rat(75, 100)) THEN "near_exact"
  ELSE IF RGeq(x, Rat(6, 10)) THEN "paraphrased"
  ELSE "none"

\* C8: the type of every returned match is the one the thresholds 0.9, 0.75
\* and 0.6 give for its similarity; only the matches of the common phrases
\* carry the tag common_phrase instead.
C8_TypeFollowsSimilarity ==
  Returned =>
    \A m \in Range(result.matches) :
      CASE entry = "detector" -> m.match_type = SpecMatchType(m.similarity)
        [] entry = "analyzer" ->
             \/ m.matchType = "common_phrase"
             \/ m.matchType = SpecMatchType(Rat(m.similarity, 100))
        [] entry = "main" -> m.type = SpecMatchType(Rat(m.similarity, 100))

\* the result tells the caller that the analysis failed
IsError ==
  IF entry = "detector" THEN "error" \in DOMAIN result
  ELSE result.status = "raised"

\* C9: when the document has no sentence of the minimum word count, the
\* analysis ends with an error, not with a result.
C9_NoSegmentIsAnError ==
  (/\ pc = "done" /\ entry \in {"analyzer", "detector", "main"}
   /\ Detector_valid_sentences(text) = <<>>) => IsError

\* C10: every sentence the detector keeps for analysis, looks up or scores
\* is non-empty and has at least min_sentence_length words; the analyzer,
\* whose _split_into_sentences filters by characters, looks up and scores
\* none of its sentences (its result is the one of an empty sentence list).
C10_AnalyzedSentencesHaveMinimumWords ==
  /\ entry = "detector" =>
       /\ \A s \in Range(valid_sentences) :
            s # <<>> /\ WordCount(s) >= min_sentence_length
       /\ pc \in {"bing", "bing_in_flight", "ddg", "ddg_in_flight", "score"}
            => i + j + 1 <= Len(valid_sentences)
       /\ \A m \in Range(DetectorMatches) :
            /\ m.original_text \in Range(valid_sentences)
            /\ WordCount(m.original_text) >= min_sentence_length
  /\ (entry = "analyzer" /\ pc = "done" /\ result.status = "completed") =>
       result = Analyzer_result(text, clean_text, <<>>)

\* C10, witness: the detector returned a match although the segmentation had
\* produced a sentence below the minimum, which it dropped.
C10_Witness ==
  /\ Returned /\ entry = "detector"
  /\ result.matches # <<>>
  /\ \E s \in Range(Detector_split_into_sentences(text)) :
       WordCount(s) < min_sentence_length

\* C11: no call of a provider adapter (_search_bing, _search_duckduckgo,
\* _search_arxiv and the other adapters of AcademicSearch) raises to its
\* caller, and a call whose request raised, timed out, got a status other
\* than 200 or could not be parsed returns the empty list.
C11_AdaptersNeverRaise ==
  entry \in {"detector", "academic"} =>
    \A l \in Range(lookups) :
      /\ ~l.raised
      /\ (l.error # "none" \/ l.status # 200) => l.results = <<>>

\* C11, witness: in one lookup of the detector the request to Bing got an
\* error status and the page of DuckDuckGo could not be parsed.
C11_Witness ==
  /\ entry = "detector" /\ pc = "score"
  /\ \E l \in Range(lookups) : l.provider = "bing" /\ l.error = "HTTPError"
  /\ \E l \in Range(lookups) :
       l.provider = "duckduckgo" /\ l.error = "ParseError"

\* C12: when one provider fails on every call of a run, the result is the
\* one of the same run, with the same responses of the other providers,
\* from which that provider is left out.
C12_FailingProviderIsAbsentProvider ==
  (pc = "done" /\ isolated # "none") =>
    CASE entry = "detector" ->
           \/ valid_sentences = <<>>
           \/ result = Detector_result(valid_sentences, twin.all_matches)
      [] entry = "academic" ->
           result = Academic_result(twin.task_results, max_results)

\* C12, witness: every request to Bing failed and the run returned matches
\* found through DuckDuckGo.
C12_Witness ==
  /\ pc = "done" /\ entry = "detector" /\ isolated = "bing"
  /\ result.matches # <<>>

\* the number of batches of the run that are over and followed by another
\* batch; a call of search_all_academic_sources is one lookup, in one batch
BatchesFollowed ==
  IF entry = "detector" /\ valid_sentences # <<>> THEN i \div batch_size ELSE 0

\* C13: the run has slept once for every batch that is followed by another
\* batch and at no other moment: not after the last batch and not between
\* two provider calls of the same batch.
C13_DelayOnlyBetweenBatches ==
  sleeps = BatchesFollowed

\* PlagiarismDetector.analyze_document by itself sleeps only between batches
DetectorDelayOnlyBetweenBatches ==
  entry = "detector" => sleeps = BatchesFollowed

\* the match list of the detector while the batches are processed
IntermediateMatches == all_matches \o batch_matches

\* C14: along the intermediate match list of the detector the sentence
\* indices never decrease, so every match of a later batch comes after every
\* match of an earlier batch.
C14_LaterBatchesComeLater ==
  entry = "detector" =>
    \A a, b \in 1..Len(IntermediateMatches) :
      a < b => IntermediateMatches[a].sentence_index
                 <= IntermediateMatches[b].sentence_index

\* C14, witness: the list holds a match of the first batch and a match of
\* the second batch.
C14_Witness ==
  /\ entry = "detector"
  /\ \E a, b \in 1..Len(all_matches) :
       /\ all_matches[a].sentence_index < batch_size
       /\ all_matches[b].sentence_index >= batch_size

\* the providers of the entry point, and the moment its lookup is over
ConfiguredProviders ==
  IF entry = "detector" THEN DetectorProviders ELSE AcademicProviders
LookupOver ==
  \/ entry = "detector" /\ pc = "score"
  \/ entry = "academic" /\ pc = "done"

\* C15: when the lookup of a segment is over, every configured provider has
\* been called exactly once for it, whatever the other providers returned.
C15_EveryProviderIsCalled ==
  LookupOver =>
    [k \in 1..Len(lookups) |-> lookups[k].provider] = ConfiguredProviders

\* AcademicSearch.search_all_academic_sources by itself calls each of its
\* four adapters once
AcademicEveryProviderIsCalled ==
  (entry = "academic" /\ pc = "done") =>
    [k \in 1..Len(lookups) |-> lookups[k].provider] = AcademicProviders

\* the merged candidate list of a lookup, the list it is made from, and
\* the number of candidates it may hold
MergedList ==
  IF entry = "detector" THEN Detector_search_results(all_results)
  ELSE result.results
MergedFrom ==
  IF entry = "detector" THEN all_results ELSE Concat(task_results)
MergedLimit ==
  IF entry = "detector" THEN max_search_results ELSE max_results

\* the normalized (title-prefix, url) key of a candidate
CandidateKey(e) == << Academic_title_key(e.title), e.url >>

\* the candidates of cs that are the first of their key, in order
FirstOfEachKey(cs) ==
  LET first == {k \in 1..Len(cs) :
                  \A m \in 1..(k - 1) : CandidateKey(cs[m]) # CandidateKey(cs[k])}
      kept == SelectSeq(Indexes(cs), LAMBDA k : k \in first)
  IN  [p \in 1..Len(kept) |-> cs[kept[p]]]

\* C16: the merged candidate list of a lookup holds at most maxResults
\* candidates, no two of them with the same normalized (title-prefix, url)
\* key, and it is made of the first candidate of every key, in provider
\* order.
C16_MergedListIsFirstOfEachKey ==
  LookupOver =>
    /\ Len(MergedList) <= MergedLimit
    /\ \A a, b \in 1..Len(MergedList) :
         a # b => CandidateKey(MergedList[a]) # CandidateKey(MergedList[b])
    /\ MergedList = PySlice(FirstOfEachKey(MergedFrom), 0, MergedLimit)

\* the merged list is never longer than the limit and no key occurs twice
MergedListIsShortAndKeysDiffer ==
  LookupOver =>
    /\ Len(MergedList) <= MergedLimit
    /\ \A a, b \in 1..Len(MergedList) :
         a # b => CandidateKey(MergedList[a]) # CandidateKey(MergedList[b])

\* C17: the analyzer returns a match of similarity 95 for a known phrase
\* exactly when the phrase, in lower case, occurs in the normalized text, and
\* a match tagged common_phrase of similarity 70 for a common phrase exactly
\* when that phrase occurs in the normalized text.
C17_StaticMatcherFollowsContainment ==
  (entry = "analyzer" /\ pc = "done" /\ result.status = "completed") =>
    /\ \A e \in Range(KnownPhrases) :
         Contains(clean_text, Lower(e.phrase)) <=>
           \E m \in Range(result.matches) :
             /\ m.matchedText = e.phrase /\ m.source = e.source
             /\ m.originalText = Lower(e.phrase)
             /\ m.similarity = 95 /\ m.matchType # "common_phrase"
    /\ \A p \in Range(common_phrases) :
         Contains(clean_text, p) <=>
           \E m \in Range(result.matches) :
             /\ m.matchedText = p
             /\ m.similarity = 70 /\ m.matchType = "common_phrase"
    /\ Len(result.matches) =
         Cardinality({k \in 1..Len(KnownPhrases) :
                        Contains(clean_text, Lower(KnownPhrases[k].phrase))})
         + Cardinality({k \in 1..Len(common_phrases) :
                          Contains(clean_text, common_phrases[k])})

\* C17, witness: the analyzer returned two known phrases that start at the
\* same offset, with a common phrase, for a text that lacks other phrases.
C17_Witness ==
  /\ entry = "analyzer" /\ pc = "done"
  /\ \E a, b \in 1..Len(result.matches) :
       /\ a # b
       /\ result.matches[a].startIndex = result.matches[b].startIndex
       /\ result.matches[a].similarity = 95
       /\ result.matches[b].similarity = 95
  /\ \E m \in Range(result.matches) : m.matchType = "common_phrase"
  /\ \E e \in Range(KnownPhrases) : ~Contains(clean_text, Lower(e.phrase))

\* C18: for the text "Artificial intelligence and machine learning have
\* revolutionized the world." the static matching returns exactly one match,
\* of type exact and similarity 95 (of 100), and an overall similarity
\* above 0: in PlagiarismAnalyzer and in simulate_plagiarism_check.
C18_ScenarioHasOneExactMatch ==
  (Returned /\ text = ScenarioText /\ entry \in {"analyzer", "main"}) =>
    /\ Len(result.matches) = 1
    /\ result.matches[1].similarity = 95
    /\ IF entry = "analyzer" THEN result.matches[1].matchType = "exact"
       ELSE result.matches[1].type = "exact"
    /\ RLt(RZero, result.overallSimilarity)

\* PlagiarismAnalyzer by itself returns the one match of the scenario, on
\* the 64 characters of the phrase, and the similarity 64/75
AnalyzerScenarioHasOneExactMatch ==
  (Returned /\ text = ScenarioText /\ entry = "analyzer") =>
    /\ Len(result.matches) = 1
    /\ result.matches[1].similarity = 95
    /\ result.matches[1].matchType = "exact"
    /\ result.matches[1].startIndex = 0 /\ result.matches[1].endIndex = 64
    /\ REq(result.overallSimilarity, Rat(64, 75))

\* simulate_plagiarism_check returns two matches for the scenario
MainScenarioHasTwoMatches ==
  (Returned /\ text = ScenarioText /\ entry = "main") =>
    /\ Len(result.matches) = 2
    /\ result.matches[1].similarity = 95 /\ result.matches[1].type = "exact"
    /\ result.matches[1].startIndex = 0 /\ result.matches[1].endIndex = 23
    /\ result.matches[2].similarity = 88
    /\ result.matches[2].type = "paraphrased"
    /\ result.matches[2].startIndex = 28 /\ result.matches[2].endIndex = 44
    /\ REq(result.overallSimilarity, Rat(95, 100))

\* the second call has returned, every recorded response consumed
ReturnedAgain ==
  /\ Returned /\ first_call.returned
  /\ first_call.at = Len(first_call.responses) + 1

\* C19: a second call on the same text, to which the providers respond as
\* they did to the first, returns the result of the first call: the same
\* overallSimilarity, riskLevel, matches in the same order and sources (the
\* identifier and the timestamp are not part of the modelled result).
C19_SecondCallReturnsTheSame ==
  (Returned /\ first_call.returned) =>
    /\ first_call.at = Len(first_call.responses) + 1
    /\ result = first_call.result

\* a second call of the detector has returned the matches of two sentences,
\* found in the responses the providers gave again
C19_Witness ==
  /\ ReturnedAgain /\ entry = "detector"
  /\ Len(first_call.responses) >= 2
  /\ Len(valid_sentences) >= 2
  /\ Len(result.matches) >= 2

\* the aggregate similarity of the matches accepted so far
SimilaritySoFar == IF all_matches = <<>> THEN RZero ELSE result.overallSimilarity

\* the match that AcceptMatch adds, and whether its region [startIndex,
\* endIndex) is outside the regions of the matches accepted before it
AddedMatch == MatchesFound[Len(all_matches) + 1]
AddedRegionIsNew ==
  /\ AddedMatch.startIndex < AddedMatch.endIndex
  /\ (AddedMatch.startIndex..(AddedMatch.endIndex - 1))
       \cap CoveredPositions(all_matches) = {}

\* C20: for a fixed document, one more accepted match never decreases
\* overallSimilarity, and a match on a region that no earlier match covers
\* strictly increases it: for _calculate_overall_similarity of the analyzer
\* and for the formula of simulate_plagiarism_check.
C20_SimilarityGrowsWithMatches ==
  [][AcceptMatch =>
       /\ ~RLess(result'.overallSimilarity, SimilaritySoFar)
       /\ AddedRegionIsNew => RLess(SimilaritySoFar, result'.overallSimilarity)
    ]_vars

\* _calculate_overall_similarity of the analyzer by itself grows with the
\* matches as C20 says
AnalyzerSimilarityGrowsWithMatches ==
  [][(AcceptMatch /\ entry = "analyzer_similarity") =>
       /\ ~RLess(result'.overallSimilarity, SimilaritySoFar)
       /\ AddedRegionIsNew => RLess(SimilaritySoFar, result'.overallSimilarity)
    ]_vars

\* the formula of simulate_plagiarism_check can decrease with one more match
MainSimilarityNeverDecreases ==
  [][(AcceptMatch /\ entry = "main_similarity") =>
       ~RLess(result'.overallSimilarity, SimilaritySoFar)]_vars

\* the matches LongText has in simulate_plagiarism_check: 95 on 68
\* characters, then 85 on 18 characters, and 0.4478 before 0.4457
MainLongTextDecreases ==
  (entry = "main_similarity" /\ text = LongText /\ Len(all_matches) = 2) =>
    /\ Len(all_matches[1].originalText) = 68 /\ all_matches[1].similarity = 95
    /\ Len(all_matches[2].originalText) = 18 /\ all_matches[2].similarity = 85
    /\ all_matches[2].startIndex = 589 /\ all_matches[2].endIndex = 602
    /\ RLess(Rat(4457, 10000), result.overallSimilarity)
    /\ RLess(result.overallSimilarity, Rat(4458, 10000))

\* with the second match of CappedText the similarity stays at the cap
MainCappedTextStays ==
  (entry = "main_similarity" /\ text = CappedText /\ all_matches # <<>>) =>
    REq(result.overallSimilarity, Rat(95, 100))

\* the analyzer has accepted two matches of a document, the second on a
\* region the first does not cover
AnalyzerAcceptedTwoRegions ==
  /\ entry = "analyzer_similarity" /\ Len(all_matches) >= 2
  /\ (all_matches[2].startIndex..(all_matches[2].endIndex - 1))
       \cap CoveredPositions(<< all_matches[1] >>) = {}
  /\ RLess(RZero, result.overallSimilarity)

\* C21: the offsets of every match of the static corpus index the original
\* document text: the original text sliced at [startIndex, endIndex) is the
\* matched phrase, case-insensitively, also when the document has runs of
\* whitespace or leading whitespace.
C21_OffsetsIndexTheOriginalText ==
  (Returned /\ entry = "analyzer") =>
    \A k \in 1..Len(result.matches) :
      Lower(PySlice(text, result.matches[k].startIndex,
                    result.matches[k].endIndex))
        = Lower(result.matches[k].matchedText)

\* the offsets index the normalized copy the analyzer searches
AnalyzerOffsetsIndexTheCleanText ==
  (Returned /\ entry = "analyzer") =>
    \A k \in 1..Len(result.matches) :
      PySlice(clean_text, result.matches[k].startIndex,
              result.matches[k].endIndex)
        = Lower(result.matches[k].matchedText)

\* the normalized (title, url) of a source
SourceKey(title, url) == << Strip(Lower(title)), url >>

\* C22: the sources of a result are exactly the distinct origins of its
\* matches: the (title, url) of every match is the (title, url) of a source,
\* every source is the origin of a match, and no two sources have the same
\* normalized (title, url). In simulate_plagiarism_check a source is
\* identified by its id, and its title and url are those of its pattern.
C22_SourcesAreTheOriginsOfTheMatches ==
  /\ (Returned /\ entry = "detector") =>
       LET ms == result.matches
           ss == result.sources
       IN  /\ \A k \in 1..Len(ms) : \E p \in 1..Len(ss) :
                SourceKey(ss[p].title, ss[p].url)
                  = SourceKey(ms[k].source_title, ms[k].source_url)
           /\ \A p \in 1..Len(ss) : \E k \in 1..Len(ms) :
                SourceKey(ss[p].title, ss[p].url)
                  = SourceKey(ms[k].source_title, ms[k].source_url)
           /\ \A p, q \in 1..Len(ss) :
                SourceKey(ss[p].title, ss[p].url)
                    = SourceKey(ss[q].title, ss[q].url)
                  => p = q
  /\ (Returned /\ entry = "main" /\ result.status = "completed") =>
       result.sources = {result.matches[k].source : k \in 1..Len(result.matches)}

\* _extract_sources keeps one source for every url of the matches
DetectorSourcesAreTheUrlsOfTheMatches ==
  (Returned /\ entry = "detector") =>
    /\ {result.sources[p].url : p \in 1..Len(result.sources)}
         = {result.matches[k].source_url : k \in 1..Len(result.matches)}
    /\ \A p, q \in 1..Len(result.sources) :
         result.sources[p].url = result.sources[q].url => p = q

\* the sources of simulate_plagiarism_check are those of its matches
MainSourcesAreThoseOfTheMatches ==
  (Returned /\ entry = "main" /\ result.status = "completed") =>
    result.sources = {result.matches[k].source : k \in 1..Len(result.matches)}

\* _calculate_similarity has returned
SimilarityReturned == entry = "calculate_similarity" /\ pc = "done"

\* C23: the similarity scorer is symmetric: similarity(a, b) is
\* similarity(b, a) for all texts a and b.
C23_SimilarityIsSymmetric ==
  SimilarityReturned =>
    REq(result.similarity, Detector_calculate_similarity(second_text, text))

\* "aba" and "bCa": 1/3 one way round and 2/3 the other
SimilarityOfAbaAndBca ==
  (SimilarityReturned /\ text = <<"a","b","a">> /\ second_text = <<"b","C","a">>) =>
    /\ REq(result.similarity, Rat(1, 3))
    /\ REq(Detector_calculate_similarity(second_text, text), Rat(2, 3))

\* C24: the similarity scorer returns 1 for a text compared with itself and
\* 0 for a non-empty text compared with the empty text, also for a
\* non-empty text made of punctuation only.
C24_SimilarityOfItselfAndOfNothing ==
  SimilarityReturned =>
    /\ text = second_text => REq(result.similarity, ROne)
    /\ (text # <<>> /\ second_text = <<>>) => REq(result.similarity, RZero)

\* the scorer returns 1 for a text compared with itself, and 0 against the
\* empty text for a text of which normalization leaves something
SimilarityOfItselfIsOne ==
  SimilarityReturned =>
    /\ text = second_text => REq(result.similarity, ROne)
    /\ (SubNonWord(Lower(text)) # <<>> /\ second_text = <<>>)
         => REq(result.similarity, RZero)

\* a text of punctuation only has similarity 1 with the empty text
SimilarityOfPunctuationAndNothingIsOne ==
  (SimilarityReturned /\ text # <<>> /\ SubNonWord(Lower(text)) = <<>>
     /\ second_text = <<>>)
    => REq(result.similarity, ROne)

\* an unexpected failure has happened inside the scoring or the aggregation
\* and the entry point is done
DoneAfterFailure ==
  /\ pc = "done" /\ entry \in {"analyzer", "detector"}
  /\ fault \in {"scoring_raised", "aggregation_raised"}

\* C25: after an unexpected failure inside the scoring or the aggregation,
\* the caller of the analysis gets an error: an exception that wraps the
\* failure with context, or at least a result marked as an error, not a
\* result that looks like a normal one.
C25_FailureIsSurfaced ==
  DoneAfterFailure => IsError

\* the analyzer raises Exception("Failed to analyze document: ...")
AnalyzerFailureIsRaised ==
  (DoneAfterFailure /\ entry = "analyzer") => result = Analyzer_raised

\* a failure inside the aggregation of the detector is returned as the
\* error result
DetectorAggregationFailureIsReturned ==
  (DoneAfterFailure /\ entry = "detector" /\ fault = "aggregation_raised")
    => result = Detector_create_error_result

\* a failure inside the scoring of a result leaves a result of the detector
\* without an error field
DetectorScoringFailureIsSwallowed ==
  (DoneAfterFailure /\ entry = "detector" /\ fault = "scoring_raised")
    => /\ "error" \notin DOMAIN result
       /\ result = Detector_result(valid_sentences, all_matches)

\* a provider call of the detector is in flight
CallInFlight == entry = "detector" /\ pc \in {"bing_in_flight", "ddg_in_flight"}

\* C26: every provider network call is a suspension point: while a call of
\* the analysis is in flight, another task that is ready on the same event
\* loop can take a step.
C26_OtherTaskRunsDuringProviderCall ==
  (CallInFlight /\ other_task = "ready") => ENABLED OtherTaskStep

\* the delay between two batches is a suspension point
OtherTaskRunsDuringDelay ==
  (entry = "detector" /\ pc = "sleep" /\ other_task = "ready")
    => ENABLED OtherTaskStep

\* the other task has taken its step while the analysis was inside
\* analyze_document, and a later provider call is in flight
OtherTaskSteppedDuringAnalysis ==
  CallInFlight /\ other_task = "stepped" /\ sleeps >= 1

\* the calls of _search_sentence_comprehensive a run makes for its valid
\* sentences: one for each, in order, in batches of batch_size
ExpectedSearches ==
  [k \in 1..Len(valid_sentences) |->
     [sentence |-> valid_sentences[k], index |-> k - 1,
      start_index |-> batch_size * ((k - 1) \div batch_size)]]

\* C27: PlagiarismDetector.analyze_document looks up every valid sentence
\* exactly once, in document order, in consecutive batches of at most 3
\* sentences; the sentence_index of every returned match is the index of
\* its sentence in valid_sentences and its original_text is that sentence.
C27_EverySentenceIsLookedUpOnce ==
  entry = "detector" =>
    /\ Len(searched) <= Len(valid_sentences)
    /\ searched = SubSeq(ExpectedSearches, 1, Len(searched))
    /\ \A k \in 1..Len(searched) : searched[k].index - searched[k].start_index < 3
    /\ (pc = "done" /\ "error" \notin DOMAIN result) =>
         /\ searched = ExpectedSearches
         /\ \A k \in 1..Len(result.matches) :
              /\ result.matches[k].sentence_index \in 0..(Len(valid_sentences) - 1)
              /\ result.matches[k].original_text
                   = valid_sentences[result.matches[k].sentence_index + 1]

\* the detector has returned a match of a sentence of its second batch
C27_Witness ==
  /\ entry = "detector" /\ pc = "done"
  /\ Len(searched) = batch_size + 1
  /\ \E k \in 1..Len(result.matches) : result.matches[k].sentence_index = batch_size

\* C28: simulate_plagiarism_check never returns riskLevel Medium: without a
\* match it returns overallSimilarity 0 and Low, and with at least one match
\* overallSimilarity lies in [0.34, 0.95] and riskLevel is High, whatever
\* the coverage of the text.
C28_RiskLevelIsNeverMedium ==
  (entry = "main" /\ pc = "done" /\ result.status = "completed") =>
    /\ result.riskLevel # "Medium"
    /\ result.matches = <<>> =>
         /\ result.overallSimilarity = RZero
         /\ result.riskLevel = "Low"
    /\ result.matches # <<>> =>
         /\ RLeq(Rat(34, 100), result.overallSimilarity)
         /\ RLeq(result.overallSimilarity, Rat(95, 100))
         /\ result.riskLevel = "High"

\* simulate_plagiarism_check has returned one match that covers less than a
\* third of the text
C28_Witness ==
  /\ entry = "main" /\ pc = "done" /\ result.status = "completed"
  /\ Len(result.matches) = 1
  /\ 3 * Len(result.matches[1].originalText) < Len(extracted_text)
  /\ RLt(result.overallSimilarity, Rat(60, 100))

\* the tasks of the list that have been started and have not ended
TasksInFlight == Len(lookups) - Len(task_results)

Occurrences(t, p) ==
  {q \in 0..(Len(t) - Len(p)) : PySlice(t, q, q + Len(p)) = p}

\* the characters of the first occurrence of the phrase in the text
FirstOccurrence(t, p) == Find(t, p)..(Find(t, p) + Len(p) - 1)

=============================================================================
